---- MODULE Spec2Model ----
(***************************************************************************)
(* Verification model of the trading backtester: the Portfolio ledger      *)
(* (src/src/backtester/portfolio.py), the Backtester bar loop              *)
(* (src/src/backtester/engine.py) and the strategy position state machine  *)
(* (src/src/strategies/base_strategy.py).                                  *)
(*                                                                         *)
(* Numbers.  Money amounts are integers counting a fixed smallest unit and *)
(* all arithmetic on them is exact.  The Portfolio is unit-agnostic; the   *)
(* Backtester uses the unit 1/MoneyScale of one price unit, so that a      *)
(* slipped price close*(1 +/- s/SlippageDen) and a commission              *)
(* shares*price*c/CommissionDen are integers of that unit.  A Python dict  *)
(* is a function whose DOMAIN is its key set; a list is a sequence.        *)
(***************************************************************************)
EXTENDS Integers, Sequences, FiniteSets, TLC

VARIABLES
    portfolio,        \* the Portfolio object (self / Backtester.portfolio)
    ret,              \* return value of the last Portfolio call ("none" before any)
    call,             \* observer: the last call, its arguments and the portfolio before it
    ncalls,           \* number of API calls made so far (also used as the call's date)
    backtester,       \* the Backtester object: initial_capital, commission_rate, slippage_rate
    strategy,         \* the strategy object: its signal rule, .positions and .trades
    data,             \* the bars handed to run(): a sequence of [date, close]
    run_symbol,       \* the symbol handed to Backtester.run
    positions_df,     \* Backtester.run's local positions_df
    idx,              \* number of bars the loop of Backtester.run has processed
    pc,               \* where Backtester.run, or the client of a strategy, is
    results,          \* Backtester.results
    variant,          \* a concrete strategy object: its class and constructor parameters
    frame,            \* the DataFrame handed to its generate_signals: column -> series
    out,              \* what that generate_signals call raised or returned ("None" before)
    earlier           \* the results objects earlier runs returned, as the client holds them

apiVars == <<ncalls>>
runVars == <<backtester, strategy, data, run_symbol, positions_df, idx, pc, results, earlier>>
sigVars == <<variant, frame, out>>
vars == <<portfolio, ret, call, ncalls, backtester, strategy, data, run_symbol,
          positions_df, idx, pc, results, variant, frame, out, earlier>>

(***************************************************************************)
(* Bounds and input sets                                                   *)
(***************************************************************************)
MaxCalls == 3
MaxBars == 3

Symbols == {"AAPL", "MSFT"}
ShareCounts == {0, 1, 2}
Prices == {1, 2}
Commissions == {0, 4}
InitialCapitals == {3, 5}

(***************************************************************************)
(* Python dict helpers                                                     *)
(***************************************************************************)
EmptyDict == [k \in {} |-> 0]

DictGet(d, k, default) == IF k \in DOMAIN d THEN d[k] ELSE default

DictSet(d, k, v) == [x \in (DOMAIN d) \cup {k} |-> IF x = k THEN v ELSE d[x]]

DictDel(d, k) == [x \in (DOMAIN d) \ {k} |-> d[x]]

RECURSIVE SumOver(_, _)
SumOver(S, f) ==
    IF S = {} THEN 0
    ELSE LET x == CHOOSE y \in S : TRUE
         IN  f[x] + SumOver(S \ {x}, f)

(***************************************************************************)
(* Portfolio                                                               *)
(***************************************************************************)
Portfolio_init(initial_capital) ==
    [ initial_capital |-> initial_capital,
      cash            |-> initial_capital,
      positions       |-> EmptyDict,
      equity_curve    |-> << >>,
      trades_history  |-> << >> ]

get_position(pf, symbol) == DictGet(pf.positions, symbol, 0)

\* mutant: no symbol is ever reported as held
has_position_never(pf, symbol) == FALSE

has_position(pf, symbol) == get_position(pf, symbol) > 0

\* mutant: an order that takes the cash to exactly zero is declined too
InsufficientFunds_atleast(total_cost, cash) == total_cost >= cash

\* the guard of buy: "if total_cost > self.cash"
InsufficientFunds(total_cost, cash) == total_cost > cash

\* mutant: buy overwrites the held share count instead of adding to it
Portfolio_buy_overwrite(pf, symbol, shares, price, date, commission) ==
    LET total_cost == (shares * price) + commission
    IN  IF InsufficientFunds(total_cost, pf.cash)
        THEN [ok |-> FALSE, pf |-> pf]
        ELSE LET cash1 == pf.cash - total_cost
             IN  [ ok |-> TRUE,
                   pf |-> [ pf EXCEPT
                            !.cash = cash1,
                            !.positions = DictSet(@, symbol, shares),
                            !.trades_history = Append(@,
                                [ date       |-> date,
                                  symbol     |-> symbol,
                                  action     |-> "BUY",
                                  shares     |-> shares,
                                  price      |-> price,
                                  commission |-> commission,
                                  total_cost |-> total_cost,
                                  cash_after |-> cash1 ]) ] ]

\* buy: returns [ok, pf] = (the bool returned, the object after the call)
Portfolio_buy(pf, symbol, shares, price, date, commission) ==
    LET total_cost == (shares * price) + commission
    IN  IF InsufficientFunds(total_cost, pf.cash)
        THEN [ok |-> FALSE, pf |-> pf]
        ELSE LET cash1          == pf.cash - total_cost
                 current_shares == DictGet(pf.positions, symbol, 0)
             IN  [ ok |-> TRUE,
                   pf |-> [ pf EXCEPT
                            !.cash = cash1,
                            !.positions = DictSet(@, symbol, current_shares + shares),
                            !.trades_history = Append(@,
                                [ date       |-> date,
                                  symbol     |-> symbol,
                                  action     |-> "BUY",
                                  shares     |-> shares,
                                  price      |-> price,
                                  commission |-> commission,
                                  total_cost |-> total_cost,
                                  cash_after |-> cash1 ]) ] ]

\* mutant: selling everything that is held is declined
NotEnoughShares_atleast(shares, current_shares) == shares >= current_shares

\* the guard of sell: "if shares > current_shares"
NotEnoughShares(shares, current_shares) == shares > current_shares

\* mutant: a position sold down to zero keeps its entry
DropIfZero_keep(positions, symbol) == positions

\* "if self.positions[symbol] == 0: del self.positions[symbol]"
DropIfZero(positions, symbol) ==
    IF positions[symbol] = 0 THEN DictDel(positions, symbol) ELSE positions

\* sell: returns [ok, pf]
Portfolio_sell(pf, symbol, shares, price, date, commission) ==
    LET current_shares == DictGet(pf.positions, symbol, 0)
    IN  IF NotEnoughShares(shares, current_shares)
        THEN [ok |-> FALSE, pf |-> pf]
        ELSE LET proceeds == (shares * price) - commission
                 cash1    == pf.cash + proceeds
                 pos1     == DictSet(pf.positions, symbol, current_shares - shares)
                 pos2     == DropIfZero(pos1, symbol)
             IN  [ ok |-> TRUE,
                   pf |-> [ pf EXCEPT
                            !.cash = cash1,
                            !.positions = pos2,
                            !.trades_history = Append(@,
                                [ date           |-> date,
                                  symbol         |-> symbol,
                                  action         |-> "SELL",
                                  shares         |-> shares,
                                  price          |-> price,
                                  commission     |-> commission,
                                  total_proceeds |-> proceeds,
                                  cash_after     |-> cash1 ]) ] ]

\* mutant: the value of the holdings alone, the cash left out
get_portfolio_value_nocash(pf, current_prices) ==
    SumOver(DOMAIN pf.positions,
            [s \in DOMAIN pf.positions |->
                pf.positions[s] * DictGet(current_prices, s, 0)])

get_portfolio_value(pf, current_prices) ==
    LET positions_value ==
            SumOver(DOMAIN pf.positions,
                    [s \in DOMAIN pf.positions |->
                        pf.positions[s] * DictGet(current_prices, s, 0)])
    IN  pf.cash + positions_value

record_equity(pf, date, prices) ==
    LET total_value == get_portfolio_value(pf, prices)
    IN  [ pf EXCEPT !.equity_curve = Append(@,
            [ date            |-> date,
              cash            |-> pf.cash,
              positions_value |-> total_value - pf.cash,
              total_value     |-> total_value ]) ]

\* get_summary: the entries that need no division
get_summary(pf) ==
    IF Len(pf.equity_curve) = 0
    THEN [error |-> "No equity data"]
    ELSE [ initial_capital  |-> pf.initial_capital,
           final_value      |-> pf.equity_curve[Len(pf.equity_curve)].total_value,
           total_trades     |-> Len(pf.trades_history),
           final_cash       |-> pf.cash,
           active_positions |-> Cardinality(DOMAIN pf.positions) ]

(***************************************************************************)
(* Fixed-point representation of the Backtester's rates                    *)
(***************************************************************************)
CommissionDen == 1000         \* commission_rate = c / CommissionDen
SlippageDen == 2000           \* slippage_rate   = s / SlippageDen
DefaultCommission == 1        \* 0.001  = 1 / 1000
DefaultSlippage == 1          \* 0.0005 = 1 / 2000
PositionPctNum == 19          \* position_pct 0.95 = 19 / 20
PositionPctDen == 20
MoneyScale == CommissionDen * SlippageDen   \* money units per price unit

\* Python int(num / den): truncation toward zero
IntTrunc(num, den) ==
    IF num >= 0 THEN num \div den ELSE 0 - ((0 - num) \div den)

(***************************************************************************)
(* BaseStrategy                                                            *)
(***************************************************************************)
\* The abstract generate_signals: the strategy's rule is any map from the
\* bars to a signal column; here the column the rule yields is strategy.rule.
generate_signals(self, df) ==
    [i \in 1..Len(df) |->
        [date |-> df[i].date, close |-> df[i].close, signal |-> self.rule[i]]]

\* mutant: a Buy while Long toggles the position back to Flat
calculate_positions_toggle(signals) ==
    LET current_position[i \in 0..Len(signals)] ==
            IF i = 0 THEN 0
            ELSE LET signal == signals[i].signal
                 IN  IF signal = 1 THEN 1 - current_position[i - 1]
                     ELSE IF signal = -1 /\ current_position[i - 1] = 1 THEN 0
                     ELSE current_position[i - 1]
    IN  [i \in 1..Len(signals) |->
            [ date     |-> signals[i].date,
              close    |-> signals[i].close,
              signal   |-> signals[i].signal,
              position |-> current_position[i] ]]

calculate_positions(signals) ==
    LET current_position[i \in 0..Len(signals)] ==
            IF i = 0 THEN 0
            ELSE LET signal == signals[i].signal
                 IN  IF signal = 1 /\ current_position[i - 1] = 0 THEN 1
                     ELSE IF signal = -1 /\ current_position[i - 1] = 1 THEN 0
                     ELSE current_position[i - 1]
    IN  [i \in 1..Len(signals) |->
            [ date     |-> signals[i].date,
              close    |-> signals[i].close,
              signal   |-> signals[i].signal,
              position |-> current_position[i] ]]

\* a float quotient, kept exact as numerator and denominator
Quotient(n, d) == [num |-> n, den |-> d]

Trade(positions, entry_idx, exit_idx) ==
    [ entry_date     |-> positions[entry_idx].date,
      entry_price    |-> positions[entry_idx].close,
      exit_date      |-> positions[exit_idx].date,
      exit_price     |-> positions[exit_idx].close,
      return         |-> Quotient(positions[exit_idx].close - positions[entry_idx].close,
                                  positions[entry_idx].close),
      holding_period |-> exit_idx - entry_idx ]

RECURSIVE identify_trades_loop(_, _, _, _, _)
identify_trades_loop(positions, i, trades, in_position, entry_idx) ==
    IF i > Len(positions) THEN trades
    ELSE LET position == positions[i].position
         IN  IF position = 1 /\ ~in_position
             THEN identify_trades_loop(positions, i + 1, trades, TRUE, i)
             ELSE IF position = 0 /\ in_position
             THEN identify_trades_loop(positions, i + 1,
                      Append(trades, Trade(positions, entry_idx, i)), FALSE, entry_idx)
             ELSE identify_trades_loop(positions, i + 1, trades, in_position, entry_idx)

\* mutant: a Long run still open at the last bar is closed there
identify_trades_close_open(positions) ==
    LET closed(trades) ==
            IF Len(positions) > 0 /\ positions[Len(positions)].position = 1
            THEN Append(trades, Trade(positions, Len(positions), Len(positions)))
            ELSE trades
    IN  closed(identify_trades_loop(positions, 1, << >>, FALSE, 0))

identify_trades(positions) == identify_trades_loop(positions, 1, << >>, FALSE, 0)

(***************************************************************************)
(* Backtester                                                              *)
(***************************************************************************)
Backtester_init(initial_capital, commission, slippage) ==
    [ initial_capital |-> initial_capital,
      commission_rate |-> commission,
      slippage_rate   |-> slippage ]

\* mutant: the whole capital is invested (position_pct = 1)
calculate_position_size_full(capital, price) == IntTrunc(capital, price)

calculate_position_size(capital, price) ==
    IntTrunc(capital * PositionPctNum, PositionPctDen * price)

\* mutant: slippage in the trader's favour on a buy
apply_slippage_favourable(self, price, action) ==
    (price \div SlippageDen) * (SlippageDen - self.slippage_rate)

\* price * (1 +/- slippage_rate); price is a multiple of SlippageDen
apply_slippage(self, price, action) ==
    IF action = "BUY"
    THEN (price \div SlippageDen) * (SlippageDen + self.slippage_rate)
    ELSE (price \div SlippageDen) * (SlippageDen - self.slippage_rate)

\* shares * price * commission_rate; price is a multiple of CommissionDen
calculate_commission(self, shares, price) ==
    LET trade_value == shares * price
    IN  (trade_value \div CommissionDen) * self.commission_rate

NoOrder(pf, date) ==
    [ pf |-> pf, ok |-> "none",
      order |-> [ op |-> "none", symbol |-> "", shares |-> 0, price |-> 0,
                  commission |-> 0, date |-> date ] ]

\* the order part of one loop iteration: [pf, ok, order]
run_order(self, pf, row, sym) ==
    LET current_price == row.close
        current_date  == row.date
        signal        == row.signal
    IN  IF signal = 1
        THEN IF ~has_position(pf, sym)
             THEN LET shares == calculate_position_size(pf.cash, current_price)
                  IN  IF shares > 0
                      THEN LET execution_price == apply_slippage(self, current_price, "BUY")
                               commission == calculate_commission(self, shares, execution_price)
                               r == Portfolio_buy(pf, sym, shares, execution_price,
                                                  current_date, commission)
                           IN  [ pf |-> r.pf, ok |-> r.ok,
                                 order |-> [ op |-> "buy", symbol |-> sym,
                                             shares |-> shares, price |-> execution_price,
                                             commission |-> commission,
                                             date |-> current_date ] ]
                      ELSE NoOrder(pf, current_date)
             ELSE NoOrder(pf, current_date)
        ELSE IF signal = -1
        THEN IF has_position(pf, sym)
             THEN LET shares == get_position(pf, sym)
                  IN  IF shares > 0
                      THEN LET execution_price == apply_slippage(self, current_price, "SELL")
                               commission == calculate_commission(self, shares, execution_price)
                               r == Portfolio_sell(pf, sym, shares, execution_price,
                                                   current_date, commission)
                           IN  [ pf |-> r.pf, ok |-> r.ok,
                                 order |-> [ op |-> "sell", symbol |-> sym,
                                             shares |-> shares, price |-> execution_price,
                                             commission |-> commission,
                                             date |-> current_date ] ]
                      ELSE NoOrder(pf, current_date)
             ELSE NoOrder(pf, current_date)
        ELSE NoOrder(pf, current_date)

\* mutant: the snapshot is taken before the bar's order is applied
run_bar_snapshot_first(self, pf, row, sym) ==
    LET o == run_order(self, pf, row, sym)
        snap == record_equity(pf, row.date, [s \in {sym} |-> row.close])
    IN  [ pf    |-> [o.pf EXCEPT !.equity_curve = snap.equity_curve],
          ok    |-> o.ok,
          order |-> o.order ]

\* mutant: a declined order ends the bar at once, without its snapshot
run_bar_skip_declined(self, pf, row, sym) ==
    LET o == run_order(self, pf, row, sym)
    IN  [ pf    |-> IF o.order.op # "none" /\ ~o.ok THEN o.pf
                    ELSE record_equity(o.pf, row.date, [s \in {sym} |-> row.close]),
          ok    |-> o.ok,
          order |-> o.order ]

\* one whole loop iteration: the order, then the equity snapshot
run_bar(self, pf, row, sym) ==
    LET o == run_order(self, pf, row, sym)
    IN  [ pf    |-> record_equity(o.pf, row.date, [s \in {sym} |-> row.close]),
          ok    |-> o.ok,
          order |-> o.order ]

BacktestResults_init(pf, strat, df, sym) ==
    [ portfolio |-> pf,
      strategy  |-> strat,
      data      |-> df,
      symbol    |-> sym,
      metrics   |->
        IF Len(pf.equity_curve) = 0
        THEN [error |-> "No equity data"]
        ELSE [ initial_capital |-> pf.initial_capital,
               final_value     |-> pf.equity_curve[Len(pf.equity_curve)].total_value,
               total_trades    |-> Len(pf.trades_history),
               days_traded     |-> Len(pf.equity_curve) ] ]

(***************************************************************************)
(* Spec: a client drives one Portfolio through any sequence of calls       *)
(***************************************************************************)
PriceMaps == UNION { [D -> Prices] : D \in SUBSET Symbols }

NoCall == [ op |-> "init", symbol |-> "", shares |-> 0, price |-> 0,
            commission |-> 0, prices |-> EmptyDict, date |-> 0 ]

Init ==
    /\ \E initial_capital \in InitialCapitals :
          /\ portfolio = Portfolio_init(initial_capital)
          /\ call = [NoCall EXCEPT !.op = "init"] @@ [before |-> Portfolio_init(initial_capital)]
    /\ ret = "none"
    /\ ncalls = 0
    /\ backtester = "None" /\ strategy = "None" /\ data = << >> /\ run_symbol = ""
    /\ positions_df = << >> /\ idx = 0 /\ pc = "idle" /\ results = "None"
    /\ variant = "None" /\ frame = "None" /\ out = "None"
    /\ earlier = << >>

Buy ==
    /\ ncalls < MaxCalls
    /\ \E symbol \in Symbols, shares \in ShareCounts, price \in Prices,
          commission \in Commissions :
          LET r == Portfolio_buy(portfolio, symbol, shares, price, ncalls + 1, commission)
          IN  /\ portfolio' = r.pf
              /\ ret' = r.ok
              /\ call' = [ op |-> "buy", symbol |-> symbol, shares |-> shares,
                           price |-> price, commission |-> commission,
                           prices |-> EmptyDict, date |-> ncalls + 1,
                           before |-> portfolio ]
    /\ ncalls' = ncalls + 1
    /\ UNCHANGED <<runVars, sigVars>>

Sell ==
    /\ ncalls < MaxCalls
    /\ \E symbol \in Symbols, shares \in ShareCounts, price \in Prices,
          commission \in Commissions :
          LET r == Portfolio_sell(portfolio, symbol, shares, price, ncalls + 1, commission)
          IN  /\ portfolio' = r.pf
              /\ ret' = r.ok
              /\ call' = [ op |-> "sell", symbol |-> symbol, shares |-> shares,
                           price |-> price, commission |-> commission,
                           prices |-> EmptyDict, date |-> ncalls + 1,
                           before |-> portfolio ]
    /\ ncalls' = ncalls + 1
    /\ UNCHANGED <<runVars, sigVars>>

RecordEquity ==
    /\ ncalls < MaxCalls
    /\ \E prices \in PriceMaps :
          /\ portfolio' = record_equity(portfolio, ncalls + 1, prices)
          /\ call' = [ op |-> "record_equity", symbol |-> "", shares |-> 0,
                       price |-> 0, commission |-> 0,
                       prices |-> prices, date |-> ncalls + 1,
                       before |-> portfolio ]
    /\ ret' = "none"
    /\ ncalls' = ncalls + 1
    /\ UNCHANGED <<runVars, sigVars>>

Next == Buy \/ Sell \/ RecordEquity

Spec == Init /\ [][Next]_vars

(***************************************************************************)
(* SpecRun: one Backtester, one strategy and one bar series; the client    *)
(* calls Backtester.run(data, strategy, symbol) and may call               *)
(* strategy.run(data) before or after it.                                  *)
(***************************************************************************)
Closes == {1 * MoneyScale, 2 * MoneyScale}
Signals == {-1, 0, 1}
RunCapitals == {2 * MoneyScale, 20 * MoneyScale}
CommissionRates == {0, DefaultCommission, 500}
SlippageRates == {0, DefaultSlippage, 1000}
RunSymbols == {"AAPL"}

\* the dates of n bars: ascending, or descending (an unsorted input)
DateColumns(n) == { [i \in 1..n |-> i], [i \in 1..n |-> n + 1 - i] }

BarSeries ==
    UNION { { [i \in 1..n |-> [date |-> d[i], close |-> c[i]]] :
                d \in DateColumns(n), c \in [1..n -> Closes] } : n \in 0..MaxBars }

InitRun ==
    /\ \E initial_capital \in RunCapitals, commission \in CommissionRates,
          slippage \in SlippageRates :
          backtester = Backtester_init(initial_capital, commission, slippage)
    /\ data \in BarSeries
    /\ \E rule \in [1..Len(data) -> Signals] :
          strategy = [rule |-> rule, positions |-> "None", trades |-> << >>, runs |-> 0]
    /\ run_symbol \in RunSymbols
    /\ portfolio = "None"
    /\ results = "None"
    /\ positions_df = << >>
    /\ idx = 0
    /\ pc = "idle"
    /\ ret = "none"
    /\ call = "None"
    /\ ncalls = 0
    /\ variant = "None" /\ frame = "None" /\ out = "None"
    /\ earlier = << >>

\* mutant: the Portfolio object of the previous run is emptied and used again
ResetPortfolio(self) ==
    [ pf |-> Portfolio_init(self.initial_capital), same_object |-> TRUE ]

\* self.portfolio = Portfolio(self.initial_capital): the constructor call
\* yields an object no earlier reference points to
NewPortfolio(self) ==
    [ pf |-> Portfolio_init(self.initial_capital), same_object |-> FALSE ]

\* what a results object shows of its portfolio once self.portfolio holds pf:
\* a reference to the same object follows every change made to it
Referenced(held, pf) ==
    [ k \in 1..Len(held) |->
        IF held[k].same_object THEN [held[k] EXCEPT !.results.portfolio = pf]
        ELSE held[k] ]

\* Backtester.run, up to the loop: fresh Portfolio, signals, positions; on a
\* second call the client still holds the results of the first
run_setup ==
    /\ LET signals_df == generate_signals(strategy, data)
           df == calculate_positions(signals_df)
       IN  /\ positions_df' = df
           /\ strategy' = [strategy EXCEPT !.positions = df]
    /\ \E p \in { NewPortfolio(backtester) } :
          /\ portfolio' = p.pf
          /\ earlier' = IF pc = "done"
                        THEN Referenced(<< [results |-> results,
                                            same_object |-> p.same_object] >>, p.pf)
                        ELSE << >>
    /\ idx' = 0
    /\ pc' = "loop"
    /\ ret' = "none"
    /\ call' = "None"
    /\ UNCHANGED <<backtester, data, run_symbol, results, ncalls, sigVars>>

\* the client calls run for the first time
RunStart ==
    /\ pc = "idle"
    /\ run_setup

\* Backtester.run: one iteration of the loop over positions_df
RunBar ==
    /\ pc = "loop"
    /\ idx < Len(positions_df)
    /\ LET b == run_bar(backtester, portfolio, positions_df[idx + 1], run_symbol)
       IN  /\ portfolio' = b.pf
           /\ ret' = b.ok
           /\ call' = b.order @@
                      [ prices |-> [s \in {run_symbol} |-> positions_df[idx + 1].close],
                        before |-> portfolio ]
    /\ earlier' = Referenced(earlier, portfolio')
    /\ idx' = idx + 1
    /\ UNCHANGED <<backtester, strategy, data, run_symbol, positions_df, pc, results, ncalls,
                   sigVars>>

\* Backtester.run, after the loop: the results object
RunFinish ==
    /\ pc = "loop"
    /\ idx = Len(positions_df)
    /\ results' = BacktestResults_init(portfolio, strategy, positions_df, run_symbol)
    /\ pc' = "done"
    /\ UNCHANGED <<portfolio, ret, call, ncalls, backtester, strategy, data, run_symbol,
                   positions_df, idx, sigVars, earlier>>

\* BaseStrategy.run(data), called by the client outside Backtester.run
StrategyRun ==
    /\ pc \in {"idle", "done"}
    /\ strategy.runs = 0
    /\ LET signals == generate_signals(strategy, data)
           positions == calculate_positions(signals)
           trades == identify_trades(positions)
       IN  strategy' = [strategy EXCEPT !.positions = positions,
                                        !.trades = trades,
                                        !.runs = @ + 1]
    /\ UNCHANGED <<portfolio, ret, call, ncalls, backtester, data, run_symbol,
                   positions_df, idx, pc, results, sigVars, earlier>>

NextRun == RunStart \/ RunBar \/ RunFinish \/ StrategyRun

SpecRun == InitRun /\ [][NextRun]_vars

(***************************************************************************)
(* SpecRuns: two runs on one Backtester, the first results still held      *)
(***************************************************************************)
\* the client, holding the results of the first run, calls run again
RunAgain ==
    /\ pc = "done"
    /\ Len(earlier) = 0
    /\ run_setup

NextRuns == RunStart \/ RunBar \/ RunFinish \/ RunAgain

SpecRuns == InitRun /\ [][NextRuns]_vars

(***************************************************************************)
(* SpecSizing: Backtester.run with the default rates on a single bar that  *)
(* carries a Buy signal, over a wide range of capital and close.           *)
(***************************************************************************)
MaxSizingSteps == 160
SizingCapitals == { k * (MoneyScale \div 8) : k \in 1..MaxSizingSteps }
SizingCloses == { 1 * MoneyScale, 2 * MoneyScale, 3 * MoneyScale, 5 * MoneyScale,
                  7 * MoneyScale }

InitSizing ==
    /\ \E initial_capital \in SizingCapitals :
          backtester = Backtester_init(initial_capital, DefaultCommission, DefaultSlippage)
    /\ \E close \in SizingCloses : data = << [date |-> 1, close |-> close] >>
    /\ strategy = [rule |-> <<1>>, positions |-> "None", trades |-> << >>, runs |-> 0]
    /\ run_symbol \in RunSymbols
    /\ portfolio = "None"
    /\ results = "None"
    /\ positions_df = << >>
    /\ idx = 0
    /\ pc = "idle"
    /\ ret = "none"
    /\ call = "None"
    /\ ncalls = 0
    /\ variant = "None" /\ frame = "None" /\ out = "None"
    /\ earlier = << >>

SpecSizing == InitSizing /\ [][NextRun]_vars

(***************************************************************************)
(* SpecTrades: a client calls identify_trades on a frame of positions      *)
(***************************************************************************)
MaxPositions == 5
PositionValues == {0, 1}

\* a frame with a position column, as calculate_positions returns it
PositionFrames(n) ==
    { [i \in 1..n |-> [date |-> i, close |-> c[i], signal |-> 0, position |-> p[i]]] :
        c \in [1..n -> Closes], p \in [1..n -> PositionValues] }

InitTrades ==
    /\ strategy = [rule |-> << >>, positions |-> "None", trades |-> << >>, runs |-> 0]
    /\ \E n_ \in 0..MaxPositions : positions_df \in PositionFrames(n_)
    /\ pc = "idle"
    /\ backtester = "None" /\ data = << >> /\ run_symbol = ""
    /\ portfolio = "None" /\ results = "None" /\ idx = 0
    /\ ret = "none" /\ call = "None" /\ ncalls = 0
    /\ variant = "None" /\ frame = "None" /\ out = "None"
    /\ earlier = << >>

\* strategy.identify_trades(positions_df)
IdentifyTrades ==
    /\ pc = "idle"
    /\ strategy' = [strategy EXCEPT !.positions = positions_df,
                                    !.trades = identify_trades(positions_df),
                                    !.runs = @ + 1]
    /\ pc' = "identified"
    /\ UNCHANGED <<portfolio, ret, call, ncalls, backtester, data, run_symbol,
                   positions_df, idx, results, sigVars, earlier>>

NextTrades == IdentifyTrades

SpecTrades == InitTrades /\ [][NextTrades]_vars

(***************************************************************************)
(* Floats and Series.  A float is NaN, +/-infinity or an exact rational    *)
(* n/d with d > 0; arithmetic and comparisons follow IEEE 754 as numpy     *)
(* applies it elementwise (x/0 is +/-inf, 0/0 is NaN, every comparison     *)
(* with NaN is False), rounding aside.  A Series is a sequence of floats.  *)
(***************************************************************************)
NaN == [k |-> "nan", n |-> 0, d |-> 1]
Num(n, d) == [k |-> "num", n |-> n, d |-> d]
Inf(sign) == [k |-> "inf", n |-> sign, d |-> 1]
F(i) == Num(i, 1)

IsNum(a) == a.k = "num"
IsNaN(a) == a.k = "nan"
IsSurd(a) == a.k = "surd"
Sign(i) == IF i > 0 THEN 1 ELSE IF i < 0 THEN -1 ELSE 0

\* Rational arithmetic
QAdd(a, b) == Num(a.n * b.d + b.n * a.d, a.d * b.d)
QSub(a, b) == Num(a.n * b.d - b.n * a.d, a.d * b.d)
QMul(a, b) == Num(a.n * b.n, a.d * b.d)
QLt(a, b) == a.n * b.d < b.n * a.d
QEq(a, b) == a.n * b.d = b.n * a.d

\* A square root that is not taken: base + sg*sqrt(q), q > 0 rational,
\* sg in {-1, 1}.  It stands for the float nearest to that real number.
Base(a) == Num(a.n, a.d)
Rad(a) == Num(a.qn, a.qd)
Surd(base, sg, q) ==
    IF q.n = 0 \/ sg = 0 THEN base
    ELSE [k |-> "surd", n |-> base.n, d |-> base.d, sg |-> sg, qn |-> q.n, qd |-> q.d]
FSqrt(a) ==
    CASE IsNaN(a)               -> NaN
      [] IsNum(a) /\ a.n < 0    -> NaN
      [] IsNum(a)               -> Surd(F(0), 1, a)
      [] a.k = "inf"            -> IF a.n > 0 THEN a ELSE NaN

\* x < base + sg*sqrt(q) and base + sg*sqrt(q) < x, by comparing squares
QLtSurd(x, a) ==
    LET below(t, sq) == IF a.sg > 0 THEN t.n < 0 \/ QLt(sq, Rad(a))
                        ELSE t.n < 0 /\ QLt(Rad(a), sq)
        square(t) == below(t, QMul(t, t))
    IN  square(QSub(x, Base(a)))
SurdLtQ(a, x) ==
    LET above(t, sq) == IF a.sg > 0 THEN t.n > 0 /\ QLt(Rad(a), sq)
                        ELSE t.n > 0 \/ QLt(sq, Rad(a))
        square(t) == above(t, QMul(t, t))
    IN  square(QSub(x, Base(a)))

\* a < b
FLt(a, b) ==
    CASE IsNaN(a) \/ IsNaN(b)    -> FALSE
      [] IsNum(a) /\ IsNum(b)    -> QLt(a, b)
      [] IsNum(a) /\ IsSurd(b)   -> QLtSurd(a, b)
      [] IsSurd(a) /\ IsNum(b)   -> SurdLtQ(a, b)
      [] a.k = "inf" /\ b.k = "inf" -> a.n < b.n
      [] b.k = "inf"             -> b.n > 0
      [] a.k = "inf"             -> a.n < 0
\* a == b
FEq(a, b) ==
    CASE IsNaN(a) \/ IsNaN(b)    -> FALSE
      [] IsNum(a) /\ IsNum(b)    -> QEq(a, b)
      [] IsNum(a) /\ IsSurd(b)   -> ~QLtSurd(a, b) /\ ~SurdLtQ(b, a)
      [] IsSurd(a) /\ IsNum(b)   -> ~QLtSurd(b, a) /\ ~SurdLtQ(a, b)
      [] a.k = "inf" /\ b.k = "inf" -> a.n = b.n
      [] a.k = "inf" \/ b.k = "inf" -> FALSE
FGt(a, b) == FLt(b, a)
FLe(a, b) == FLt(a, b) \/ FEq(a, b)
FGe(a, b) == FLt(b, a) \/ FEq(a, b)

FNeg(a) ==
    CASE IsNaN(a)  -> NaN
      [] IsSurd(a) -> [a EXCEPT !.n = 0 - a.n, !.sg = 0 - a.sg]
      [] OTHER     -> [a EXCEPT !.n = 0 - a.n]

FAdd(a, b) ==
    CASE IsNaN(a) \/ IsNaN(b)    -> NaN
      [] IsNum(a) /\ IsNum(b)    -> QAdd(a, b)
      [] IsNum(a) /\ IsSurd(b)   -> Surd(QAdd(a, Base(b)), b.sg, Rad(b))
      [] IsSurd(a) /\ IsNum(b)   -> Surd(QAdd(Base(a), b), a.sg, Rad(a))
      [] IsSurd(a) /\ IsSurd(b) /\ QEq(Rad(a), Rad(b)) ->
            \* (sg_a + sg_b) * sqrt(q) is 0 or +/- sqrt(4q)
            Surd(QAdd(Base(a), Base(b)), Sign(a.sg + b.sg), QMul(F(4), Rad(a)))
      [] a.k = "inf" /\ b.k = "inf" -> IF a.n = b.n THEN a ELSE NaN
      [] a.k = "inf"             -> a
      [] b.k = "inf"             -> b
FSub(a, b) == FAdd(a, FNeg(b))

\* a * b, b a number
FMul(a, b) ==
    CASE IsNaN(a) \/ IsNaN(b)    -> NaN
      [] IsNum(a) /\ IsNum(b)    -> QMul(a, b)
      [] IsSurd(a) /\ IsNum(b)   ->
            Surd(QMul(Base(a), b), a.sg * Sign(b.n), QMul(Rad(a), QMul(b, b)))

\* a / b, b a number, +/-inf or NaN
FDiv(a, b) ==
    CASE IsNaN(a) \/ IsNaN(b)    -> NaN
      [] IsNum(a) /\ IsNum(b)    ->
            IF b.n = 0
            THEN IF a.n = 0 THEN NaN ELSE Inf(Sign(a.n))
            ELSE Num(Sign(b.n) * a.n * b.d, Sign(b.n) * a.d * b.n)
      [] IsSurd(a) /\ IsNum(b) /\ b.n # 0 ->
            FMul(a, Num(Sign(b.n) * b.d, Sign(b.n) * b.n))
      [] a.k = "inf" /\ b.k = "inf" -> NaN
      [] IsNum(a) /\ b.k = "inf" -> F(0)
      [] a.k = "inf" /\ IsNum(b) -> Inf(IF b.n < 0 THEN 0 - a.n ELSE a.n)

\* mutant: shift(1, fill_value=0)
shift_fill0(s) == [i \in 1..Len(s) |-> IF i = 1 THEN F(0) ELSE s[i - 1]]

\* Series.shift(1)
shift(s) == [i \in 1..Len(s) |-> IF i = 1 THEN NaN ELSE s[i - 1]]
\* Series.diff()
diff(s) == [i \in 1..Len(s) |-> FSub(s[i], shift(s)[i])]
\* Series.clip(lower=0) and Series.clip(upper=0)
clip_lower0(s) == [i \in 1..Len(s) |-> IF FLt(s[i], F(0)) THEN F(0) ELSE s[i]]
clip_upper0(s) == [i \in 1..Len(s) |-> IF FGt(s[i], F(0)) THEN F(0) ELSE s[i]]

RECURSIVE window_sum(_, _, _)
window_sum(s, lo, hi) ==
    IF lo > hi THEN F(0) ELSE FAdd(window_sum(s, lo, hi - 1), s[hi])

\* Series.rolling(window=window).mean(), window >= 1: NaN until the window
\* holds `window` values, none of them NaN
rolling_mean(s, window) ==
    [i \in 1..Len(s) |->
        IF i >= window /\ \A j \in (i - window + 1)..i : ~IsNaN(s[j])
        THEN FDiv(window_sum(s, i - window + 1, i), F(window))
        ELSE NaN]

\* Series.rolling(window=window).std(), window >= 1: the sample standard
\* deviation (ddof = 1), NaN for a window of one value
rolling_std(s, window) ==
    LET std(sum, sumsq) ==
            FSqrt(FDiv(FSub(FMul(sumsq, F(window)), FMul(sum, sum)),
                       F(window * (window - 1))))
    IN  [i \in 1..Len(s) |->
            IF i >= window /\ \A j \in (i - window + 1)..i : ~IsNaN(s[j])
            THEN std(window_sum(s, i - window + 1, i),
                     window_sum([j \in 1..Len(s) |-> FMul(s[j], s[j])],
                                i - window + 1, i))
            ELSE NaN]

(***************************************************************************)
(* TechnicalIndicators                                                     *)
(***************************************************************************)
sma(data_, period) == rolling_mean(data_, period)

rsi(data_, period) ==
    LET rsi_of(avg_gains, avg_losses) ==
            LET rs == [i \in 1..Len(data_) |-> FDiv(avg_gains[i], avg_losses[i])]
            IN  [i \in 1..Len(data_) |-> FSub(F(100), FDiv(F(100), FAdd(F(1), rs[i])))]
        averages(delta) ==
            LET gains  == clip_lower0(delta)
                losses == [i \in 1..Len(data_) |-> FNeg(clip_upper0(delta)[i])]
            IN  rsi_of(rolling_mean(gains, period), rolling_mean(losses, period))
    IN  averages(diff(data_))

\* (upper_band, middle_band, lower_band)
bollinger_bands(data_, period, std_dev) ==
    LET bands(middle_band, rolling_std_) ==
            [ upper  |-> [i \in 1..Len(data_) |->
                            FAdd(middle_band[i], FMul(rolling_std_[i], std_dev))],
              middle |-> middle_band,
              lower  |-> [i \in 1..Len(data_) |->
                            FSub(middle_band[i], FMul(rolling_std_[i], std_dev))] ]
    IN  bands(sma(data_, period), rolling_std(data_, period))

(***************************************************************************)
(* DataFrames.  A DataFrame is a function from its column names to Series  *)
(* of one length; integer columns hold the floats 0, 1 and -1.             *)
(***************************************************************************)
nrows(df) == Len(df[CHOOSE c \in DOMAIN df : TRUE])
\* a column of n copies of v:  df[col] = v
full(n_, v) == [i \in 1..n_ |-> v]
\* the column after  df.loc[mask, col] = v
set_where(col, mask, v) == [i \in 1..Len(col) |-> IF mask[i] THEN v ELSE col[i]]
sma_col(window) == "sma_" \o ToString(window)
Returned(df) == [raised |-> "none", df |-> df]
Raised(error, what) == [raised |-> error, what |-> what]

(***************************************************************************)
(* MovingAverageCrossover                                                  *)
(***************************************************************************)
MovingAverageCrossover_init(short_window, long_window) ==
    [ cls          |-> "MovingAverageCrossover",
      short_window |-> short_window,
      long_window  |-> long_window,
      signals      |-> "None" ]

\* mutant: a Buy wherever the short average is above the long one
MovingAverageCrossover_generate_signals_level(self, data_) ==
    LET short_col == sma_col(self.short_window)
        long_col  == sma_col(self.long_window)
        with_sma(df, col, window) ==
            IF col \notin DOMAIN df
            THEN DictSet(df, col, rolling_mean(df["close"], window))
            ELSE df
        signals(df) ==
            LET short_ma == df[short_col]
                long_ma  == df[long_col]
                buy  == [i \in 1..nrows(df) |-> FGt(short_ma[i], long_ma[i])]
                sell == [i \in 1..nrows(df) |->
                            /\ FLt(short_ma[i], long_ma[i])
                            /\ FGe(shift(short_ma)[i], shift(long_ma)[i])]
                signal == set_where(set_where(full(nrows(df), F(0)), buy, F(1)),
                                    sell, F(-1))
            IN  Returned(DictSet(DictSet(DictSet(df, "signal", signal),
                                         "short_ma", short_ma), "long_ma", long_ma))
    IN  signals(with_sma(with_sma(data_, short_col, self.short_window),
                         long_col, self.long_window))

MovingAverageCrossover_generate_signals(self, data_) ==
    LET short_col == sma_col(self.short_window)
        long_col  == sma_col(self.long_window)
        \* the frame with the average computed from close where it is absent
        with_sma(df, col, window) ==
            IF col \notin DOMAIN df
            THEN DictSet(df, col, rolling_mean(df["close"], window))
            ELSE df
        signals(df) ==
            LET short_ma == df[short_col]
                long_ma  == df[long_col]
                buy  == [i \in 1..nrows(df) |->
                            /\ FGt(short_ma[i], long_ma[i])
                            /\ FLe(shift(short_ma)[i], shift(long_ma)[i])]
                sell == [i \in 1..nrows(df) |->
                            /\ FLt(short_ma[i], long_ma[i])
                            /\ FGe(shift(short_ma)[i], shift(long_ma)[i])]
                signal == set_where(set_where(full(nrows(df), F(0)), buy, F(1)),
                                    sell, F(-1))
            IN  Returned(DictSet(DictSet(DictSet(df, "signal", signal),
                                         "short_ma", short_ma), "long_ma", long_ma))
    IN  signals(with_sma(with_sma(data_, short_col, self.short_window),
                         long_col, self.long_window))

(***************************************************************************)
(* RSIStrategy and RSIEnhancedStrategy                                     *)
(***************************************************************************)
RSIStrategy_init(rsi_period, oversold, overbought) ==
    [ cls        |-> "RSIStrategy",
      rsi_period |-> rsi_period,
      oversold   |-> oversold,
      overbought |-> overbought,
      signals    |-> "None" ]

RSIStrategy_generate_signals(self, data_) ==
    LET signals(df) ==
            LET rsi_ == df["rsi"]
                buy  == [i \in 1..nrows(df) |->
                            /\ FLt(rsi_[i], self.oversold)
                            /\ FGe(shift(rsi_)[i], self.oversold)]
                sell == [i \in 1..nrows(df) |->
                            /\ FGt(rsi_[i], self.overbought)
                            /\ FLe(shift(rsi_)[i], self.overbought)]
                signal == set_where(set_where(full(nrows(df), F(0)), buy, F(1)),
                                    sell, F(-1))
            IN  Returned(DictSet(df, "signal", signal))
    IN  signals(IF "rsi" \notin DOMAIN data_
                THEN DictSet(data_, "rsi", rsi(data_["close"], self.rsi_period))
                ELSE data_)

RSIEnhancedStrategy_init(rsi_period, oversold, overbought, trend_ma) ==
    [ cls        |-> "RSIEnhancedStrategy",
      rsi_period |-> rsi_period,
      oversold   |-> oversold,
      overbought |-> overbought,
      trend_ma   |-> trend_ma,
      signals    |-> "None" ]

\* a boolean column as floats: True is 1, False is 0
FBool(b) == IF b THEN F(1) ELSE F(0)

RSIEnhancedStrategy_generate_signals(self, data_) ==
    LET trend_col == sma_col(self.trend_ma)
        with_trend(df) ==
            IF trend_col \notin DOMAIN df
            THEN DictSet(df, trend_col, rolling_mean(df["close"], self.trend_ma))
            ELSE df
        signals(df) ==
            LET rsi_ == df["rsi"]
                uptrend == [i \in 1..nrows(df) |-> FGt(df["close"][i], df[trend_col][i])]
                buy  == [i \in 1..nrows(df) |->
                            /\ FLt(rsi_[i], self.oversold)
                            /\ FGe(shift(rsi_)[i], self.oversold)
                            /\ uptrend[i]]
                sell == [i \in 1..nrows(df) |->
                            /\ FGt(rsi_[i], self.overbought)
                            /\ FLe(shift(rsi_)[i], self.overbought)]
                signal == set_where(set_where(full(nrows(df), F(0)), buy, F(1)),
                                    sell, F(-1))
            IN  Returned(DictSet(DictSet(df, "uptrend",
                                         [i \in 1..nrows(df) |-> FBool(uptrend[i])]),
                                 "signal", signal))
    IN  signals(with_trend(IF "rsi" \notin DOMAIN data_
                           THEN DictSet(data_, "rsi", rsi(data_["close"], self.rsi_period))
                           ELSE data_))

(***************************************************************************)
(* BollingerBandsStrategy and BollingerBandsBreakoutStrategy               *)
(***************************************************************************)
BollingerBandsStrategy_init(bb_period, bb_std) ==
    [ cls       |-> "BollingerBandsStrategy",
      bb_period |-> bb_period,
      bb_std    |-> bb_std,
      signals   |-> "None" ]

\* the frame after the bands were computed where bb_upper or bb_lower is absent
with_bollinger_bands(self, data_) ==
    LET set_bands(bands) ==
            DictSet(DictSet(DictSet(data_, "bb_upper", bands.upper),
                            "bb_middle", bands.middle), "bb_lower", bands.lower)
    IN  IF "bb_upper" \notin DOMAIN data_ \/ "bb_lower" \notin DOMAIN data_
        THEN set_bands(bollinger_bands(data_["close"], self.bb_period, self.bb_std))
        ELSE data_

BollingerBandsStrategy_generate_signals(self, data_) ==
    LET signals(df) ==
            LET close == df["close"]
                buy  == [i \in 1..nrows(df) |->
                            /\ FLe(close[i], df["bb_lower"][i])
                            /\ FGt(shift(close)[i], shift(df["bb_lower"])[i])]
                sell == [i \in 1..nrows(df) |->
                            /\ FGe(close[i], df["bb_upper"][i])
                            /\ FLt(shift(close)[i], shift(df["bb_upper"])[i])]
                signal == set_where(set_where(full(nrows(df), F(0)), buy, F(1)),
                                    sell, F(-1))
            IN  Returned(DictSet(df, "signal", signal))
    IN  signals(with_bollinger_bands(self, data_))

BollingerBandsBreakoutStrategy_init(bb_period, bb_std, squeeze_threshold) ==
    [ cls               |-> "BollingerBandsBreakoutStrategy",
      bb_period         |-> bb_period,
      bb_std            |-> bb_std,
      squeeze_threshold |-> squeeze_threshold,
      signals           |-> "None" ]

BollingerBandsBreakoutStrategy_generate_signals(self, data_) ==
    LET signals(df, squeeze) ==
            LET close == df["close"]
                \* squeeze.shift(1): the missing first value counts as False in `&`
                squeeze_shift == [i \in 1..nrows(df) |->
                                    IF i = 1 THEN FALSE ELSE squeeze[i - 1]]
                buy  == [i \in 1..nrows(df) |->
                            /\ FGt(close[i], df["bb_upper"][i])
                            /\ FLe(shift(close)[i], shift(df["bb_upper"])[i])
                            /\ squeeze_shift[i]]
                sell == [i \in 1..nrows(df) |->
                            /\ FLt(close[i], df["bb_middle"][i])
                            /\ FGe(shift(close)[i], shift(df["bb_middle"])[i])]
                signal == set_where(set_where(full(nrows(df), F(0)), buy, F(1)),
                                    sell, F(-1))
            IN  IF "bb_middle" \notin DOMAIN df
                THEN Raised("KeyError", "bb_middle")
                ELSE Returned(DictSet(df, "signal", signal))
        with_squeeze(df, bb_width_pct) ==
            signals(DictSet(DictSet(df, "bb_width_pct", bb_width_pct), "squeeze",
                            [i \in 1..nrows(df) |->
                                FBool(FLt(bb_width_pct[i], self.squeeze_threshold))]),
                    [i \in 1..nrows(df) |-> FLt(bb_width_pct[i], self.squeeze_threshold)])
        with_width(df) ==
            with_squeeze(df, [i \in 1..nrows(df) |->
                                FDiv(FSub(df["bb_upper"][i], df["bb_lower"][i]),
                                     df["close"][i])])
    IN  with_width(with_bollinger_bands(self, data_))

(***************************************************************************)
(* CombinedStrategy and WeightedCombinedStrategy                           *)
(***************************************************************************)
CombinedStrategy_init(rsi_oversold, rsi_overbought, min_signals) ==
    [ cls            |-> "CombinedStrategy",
      rsi_oversold   |-> rsi_oversold,
      rsi_overbought |-> rsi_overbought,
      min_signals    |-> min_signals,
      signals        |-> "None" ]

required_indicators == <<"rsi", "macd", "macd_signal", "bb_upper", "bb_lower">>

\* mutant: the third column is left out of the sum
count_eq_first_two(a, b, c, v, i) ==
    (IF FEq(a[i], v) THEN 1 ELSE 0) + (IF FEq(b[i], v) THEN 1 ELSE 0)

\* (col == v).astype(int), summed over three columns
count_eq(a, b, c, v, i) ==
    (IF FEq(a[i], v) THEN 1 ELSE 0) + (IF FEq(b[i], v) THEN 1 ELSE 0)
        + (IF FEq(c[i], v) THEN 1 ELSE 0)

CombinedStrategy_generate_signals(self, data_) ==
    LET missing == SelectSeq(required_indicators, LAMBDA ind : ind \notin DOMAIN data_)
        n_ == nrows(data_)
        rows == 1..n_
        rsi_signal == set_where(
                        set_where(full(n_, F(0)),
                                  [i \in rows |-> FLt(data_["rsi"][i], self.rsi_oversold)], F(1)),
                        [i \in rows |-> FGt(data_["rsi"][i], self.rsi_overbought)], F(-1))
        macd == data_["macd"]
        \* the two assignments to df['macd_signal'], each reading the column
        \* as the statements before it left it
        crossed_above(macd_signal) ==
            set_where(macd_signal,
                      [i \in rows |-> /\ FGt(macd[i], macd_signal[i])
                                      /\ FLe(shift(macd)[i], shift(macd_signal)[i])],
                      F(1))
        crossed_below(macd_signal) ==
            set_where(macd_signal,
                      [i \in rows |-> /\ FLt(macd[i], macd_signal[i])
                                      /\ FGe(shift(macd)[i], shift(macd_signal)[i])],
                      F(-1))
        bb_signal == set_where(
                        set_where(full(n_, F(0)),
                                  [i \in rows |-> FLe(data_["close"][i], data_["bb_lower"][i])],
                                  F(1)),
                        [i \in rows |-> FGe(data_["close"][i], data_["bb_upper"][i])], F(-1))
        signals(buy_strength, sell_strength) ==
            set_where(
                set_where(full(n_, F(0)),
                          [i \in rows |-> FGe(buy_strength[i], F(self.min_signals))], F(1)),
                [i \in rows |-> FGe(sell_strength[i], F(self.min_signals))], F(-1))
        strengths(df, buy_strength, sell_strength) ==
            Returned(DictSet(DictSet(DictSet(df, "buy_strength", buy_strength),
                                     "sell_strength", sell_strength),
                             "signal", signals(buy_strength, sell_strength)))
        combine(rsi_signal_, macd_signal, bb_signal_) ==
            strengths(DictSet(DictSet(DictSet(data_, "rsi_signal", rsi_signal_),
                                      "macd_signal", macd_signal), "bb_signal", bb_signal_),
                      [i \in rows |-> F(count_eq(rsi_signal_, macd_signal, bb_signal_, F(1), i))],
                      [i \in rows |-> F(count_eq(rsi_signal_, macd_signal, bb_signal_, F(-1), i))])
    IN  IF Len(missing) > 0
        THEN Raised("ValueError", missing)
        \* df['macd_signal'] = 0 replaces the column of the input
        ELSE combine(rsi_signal, crossed_below(crossed_above(full(n_, F(0)))), bb_signal)

WeightedCombinedStrategy_init(rsi_weight, macd_weight, bb_weight, threshold) ==
    [ cls         |-> "WeightedCombinedStrategy",
      rsi_weight  |-> rsi_weight,
      macd_weight |-> macd_weight,
      bb_weight   |-> bb_weight,
      threshold   |-> threshold,
      signals     |-> "None" ]

\* the columns generate_signals reads, in the order it reads them
weighted_reads == <<"rsi", "macd", "macd_signal", "close", "bb_lower", "bb_upper">>

WeightedCombinedStrategy_generate_signals(self, data_) ==
    LET absent == SelectSeq(weighted_reads, LAMBDA col : col \notin DOMAIN data_)
        n_ == nrows(data_)
        rows == 1..n_
        rsi_score == set_where(
                        set_where(full(n_, F(0)),
                                  [i \in rows |-> FLt(data_["rsi"][i], F(30))], F(1)),
                        [i \in rows |-> FGt(data_["rsi"][i], F(70))], F(-1))
        macd == data_["macd"]
        macd_signal == data_["macd_signal"]
        macd_score == set_where(
                        set_where(full(n_, F(0)),
                          [i \in rows |-> /\ FGt(macd[i], macd_signal[i])
                                          /\ FLe(shift(macd)[i], shift(macd_signal)[i])],
                          F(1)),
                        [i \in rows |-> /\ FLt(macd[i], macd_signal[i])
                                        /\ FGe(shift(macd)[i], shift(macd_signal)[i])],
                        F(-1))
        bb_score == set_where(
                        set_where(full(n_, F(0)),
                                  [i \in rows |-> FLe(data_["close"][i], data_["bb_lower"][i])],
                                  F(1)),
                        [i \in rows |-> FGe(data_["close"][i], data_["bb_upper"][i])], F(-1))
        signals(df, total_score) ==
            Returned(DictSet(DictSet(df, "total_score", total_score), "signal",
                set_where(
                    set_where(full(n_, F(0)),
                              [i \in rows |-> FGe(total_score[i], self.threshold)], F(1)),
                    [i \in rows |-> FLe(total_score[i], FNeg(self.threshold))], F(-1))))
        scores(rsi_score_, macd_score_, bb_score_) ==
            signals(DictSet(DictSet(DictSet(data_, "rsi_score", rsi_score_),
                                    "macd_score", macd_score_), "bb_score", bb_score_),
                    [i \in rows |->
                        FAdd(FAdd(FMul(rsi_score_[i], self.rsi_weight),
                                  FMul(macd_score_[i], self.macd_weight)),
                             FMul(bb_score_[i], self.bb_weight))])
    IN  IF Len(absent) > 0
        THEN Raised("KeyError", absent[1])
        ELSE scores(rsi_score, macd_score, bb_score)

\* generate_signals of the object's class
Strategy_generate_signals(self, data_) ==
    CASE self.cls = "MovingAverageCrossover" ->
            MovingAverageCrossover_generate_signals(self, data_)
      [] self.cls = "RSIStrategy" ->
            RSIStrategy_generate_signals(self, data_)
      [] self.cls = "RSIEnhancedStrategy" ->
            RSIEnhancedStrategy_generate_signals(self, data_)
      [] self.cls = "BollingerBandsStrategy" ->
            BollingerBandsStrategy_generate_signals(self, data_)
      [] self.cls = "BollingerBandsBreakoutStrategy" ->
            BollingerBandsBreakoutStrategy_generate_signals(self, data_)
      [] self.cls = "CombinedStrategy" ->
            CombinedStrategy_generate_signals(self, data_)
      [] self.cls = "WeightedCombinedStrategy" ->
            WeightedCombinedStrategy_generate_signals(self, data_)

(***************************************************************************)
(* SpecSignals: a client constructs one strategy of any class and calls    *)
(* its generate_signals on one DataFrame.  The frames either carry the     *)
(* indicator columns the class reads, with any mix of defined and          *)
(* undefined values, or lack some of them.                                 *)
(***************************************************************************)
MaxRows == 3          \* rows of a frame for the classes reading few columns
MaxWideRows == 2      \* rows of a frame for the classes reading many columns

\* constructor arguments; each set holds the defaults' shape and invalid ones
MAWindows == { <<1, 2>>, <<2, 3>>, <<0, -1>> }
RSIParams == { <<2, F(30), F(70)>>, <<1, F(30), F(70)>>, <<2, F(70), F(30)>>,
               <<0, F(30), F(70)>> }
RSIEnhancedParams == { <<2, F(30), F(70), 2>>, <<2, F(30), F(70), 3>> }
BollingerParams == { <<2, F(2)>>, <<3, F(1)>> }
BreakoutParams == { <<2, F(2), Num(3, 4)>> }
CombinedParams == { <<F(30), F(70), 2>>, <<F(30), F(70), 3>>, <<F(30), F(70), 1>> }
WeightedParams == { <<F(1), Num(3, 2), F(1), F(2)>>, <<F(1), F(2), F(1), Num(5, 2)>>,
                    <<F(1), F(1), F(1), F(0)>> }

Variants ==
    { MovingAverageCrossover_init(p[1], p[2]) : p \in MAWindows }
    \cup { RSIStrategy_init(p[1], p[2], p[3]) : p \in RSIParams }
    \cup { RSIEnhancedStrategy_init(p[1], p[2], p[3], p[4]) : p \in RSIEnhancedParams }
    \cup { BollingerBandsStrategy_init(p[1], p[2]) : p \in BollingerParams }
    \cup { BollingerBandsBreakoutStrategy_init(p[1], p[2], p[3]) : p \in BreakoutParams }
    \cup { CombinedStrategy_init(p[1], p[2], p[3]) : p \in CombinedParams }
    \cup { WeightedCombinedStrategy_init(p[1], p[2], p[3], p[4]) : p \in WeightedParams }

\* the frame whose rows are r[1], r[2], ...
FrameOfRows(r) == [c \in DOMAIN r[1] |-> [i \in 1..Len(r) |-> r[i][c]]]
\* the frames of at most maxn rows whose rows are drawn from Rows
FramesOver(Rows, maxn) ==
    UNION { { FrameOfRows(r) : r \in [1..n_ -> Rows] } : n_ \in 1..maxn }
    \cup { [c \in DOMAIN row |-> << >>] : row \in Rows }

ClosePrices == { F(1), F(2), F(3) }
\* bars without any indicator column
BareFrames == FramesOver({ ("close" :> c) : c \in ClosePrices }, MaxRows)

MARows(self) ==
    { ("close" :> F(2)) @@ (sma_col(self.short_window) :> a)
                        @@ (sma_col(self.long_window) :> b) :
        a \in { NaN, F(1), F(2), F(3) }, b \in { NaN, F(2) } }
\* short SMA 1,2,3,4,5 against a long SMA of 3,3,3,3,3
CrossoverScenario(self) ==
    ("close" :> [i \in 1..5 |-> F(3)])
        @@ (sma_col(self.short_window) :> [i \in 1..5 |-> F(i)])
        @@ (sma_col(self.long_window) :> [i \in 1..5 |-> F(3)])
RSIRows ==
    { ("close" :> F(2)) @@ ("rsi" :> a) :
        a \in { NaN, F(20), F(30), F(50), F(70), F(80) } }
RSIEnhancedRows(self) ==
    { ("close" :> F(2)) @@ ("rsi" :> a) @@ (sma_col(self.trend_ma) :> b) :
        a \in { NaN, F(20), F(50), F(80) }, b \in { NaN, F(1), F(3) } }
BollingerRows ==
    { ("close" :> F(2)) @@ ("bb_lower" :> a) @@ ("bb_upper" :> b) :
        a \in { NaN, F(1), F(2) }, b \in { NaN, F(2), F(3) } }
BreakoutRows ==
    { ("close" :> F(2)) @@ ("bb_lower" :> a) @@ ("bb_upper" :> b) @@ ("bb_middle" :> c) :
        a \in { NaN, F(1) }, b \in { NaN, F(1), F(2) }, c \in { NaN, F(1), F(3) } }
\* the bands around close 2:  (bb_lower, bb_upper)
BandPairs == { <<F(1), F(3)>>, <<F(2), F(3)>>, <<F(1), F(2)>> }
CombinedRows ==
    { ("close" :> F(2)) @@ ("rsi" :> a) @@ ("macd" :> b) @@ ("macd_signal" :> c)
                        @@ ("bb_lower" :> p[1]) @@ ("bb_upper" :> p[2]) :
        a \in { NaN, F(20), F(80) }, b \in { F(-1), F(2) },
        c \in { F(0), F(3) }, p \in BandPairs }

\* the rows of the frames that carry every column the class reads
RowsOf(self) ==
    CASE self.cls = "MovingAverageCrossover" -> MARows(self)
      [] self.cls = "RSIStrategy" -> RSIRows
      [] self.cls = "RSIEnhancedStrategy" -> RSIEnhancedRows(self)
      [] self.cls = "BollingerBandsStrategy" -> BollingerRows
      [] self.cls = "BollingerBandsBreakoutStrategy" -> BreakoutRows
      [] self.cls \in {"CombinedStrategy", "WeightedCombinedStrategy"} -> CombinedRows

MaxRowsOf(self) ==
    IF self.cls \in {"BollingerBandsBreakoutStrategy", "CombinedStrategy",
                     "WeightedCombinedStrategy"}
    THEN MaxWideRows ELSE MaxRows

\* frames given apart from the enumerated ones: the frame of no rows, and
\* for MovingAverageCrossover the scenario frame
SpecialFrames(self) ==
    FramesOver(RowsOf(self), 0)
    \cup IF self.cls = "MovingAverageCrossover" THEN { CrossoverScenario(self) } ELSE {}

\* every period or window the object was constructed with is at least 1
ValidWindows(self) ==
    CASE self.cls = "MovingAverageCrossover" -> self.short_window >= 1 /\ self.long_window >= 1
      [] self.cls = "RSIStrategy" -> self.rsi_period >= 1
      [] self.cls = "RSIEnhancedStrategy" -> self.rsi_period >= 1 /\ self.trend_ma >= 1
      [] self.cls \in {"BollingerBandsStrategy", "BollingerBandsBreakoutStrategy"} ->
            self.bb_period >= 1
      [] OTHER -> TRUE

\* frames lacking one or all of the indicator columns the class reads; a
\* class that computes a missing column gets them only with windows >= 1
LackingFrames(self) ==
    IF ~ValidWindows(self) THEN {}
    ELSE UNION { { DictDel(f, c) : c \in DOMAIN f \ {"close"} } :
                   f \in FramesOver(RowsOf(self), 1) }
         \cup IF self.cls \in {"CombinedStrategy", "WeightedCombinedStrategy"}
              THEN {} ELSE BareFrames

Frames(self) == SpecialFrames(self) \cup LackingFrames(self)

InitSignals ==
    /\ variant = "None" /\ frame = "None" /\ out = "None"
    /\ earlier = << >>
    /\ pc = "idle"
    /\ portfolio = "None" /\ ret = "none" /\ call = "None" /\ ncalls = 0
    /\ backtester = "None" /\ strategy = "None" /\ data = << >> /\ run_symbol = ""
    /\ positions_df = << >> /\ idx = 0 /\ results = "None"

\* the client constructs a strategy object
Construct ==
    /\ pc = "idle"
    /\ \E v \in Variants : variant' = v
    /\ pc' = "constructed"
    /\ UNCHANGED <<portfolio, ret, call, ncalls, backtester, strategy, data, run_symbol,
                   positions_df, idx, results, frame, out, earlier>>

\* variant.generate_signals(df): the result, and self.signals on return
Call_generate_signals(df) ==
    \E r \in { Strategy_generate_signals(variant, df) } :
        /\ frame' = df
        /\ out' = r
        /\ variant' = IF r.raised = "none"
                      THEN [variant EXCEPT !.signals = r.df]
                      ELSE variant

\* the client calls variant.generate_signals(frame)
GenerateSignals ==
    /\ pc = "constructed"
    /\ \/ \E df \in Frames(variant) : Call_generate_signals(df)
       \* a frame of 1..MaxRowsOf rows carrying every column the class reads
       \/ \E n_ \in 1..MaxRowsOf(variant) :
             \E r \in [1..n_ -> RowsOf(variant)] : Call_generate_signals(FrameOfRows(r))
    /\ pc' = "signalled"
    /\ UNCHANGED <<portfolio, ret, call, ncalls, backtester, strategy, data, run_symbol,
                   positions_df, idx, results, earlier>>

NextSignals == Construct \/ GenerateSignals

SpecSignals == InitSignals /\ [][NextSignals]_vars

(***************************************************************************)
(* SpecMetrics: BacktestResults._calculate_metrics over an equity curve    *)
(***************************************************************************)
MaxCurveLen == 4
EquityValues == {-100, 0, 90, 100, 110, 120}

\* mutant: the peak of the whole curve instead of the running peak
cummax_whole(s) ==
    [i \in 1..Len(s) |-> s[CHOOSE k \in 1..Len(s) : \A j \in 1..Len(s) : FLe(s[j], s[k])]]

\* Series.cummax() of a series without NaN
RECURSIVE cummax_at(_, _)
cummax_at(s, i) ==
    IF i = 1 THEN s[1]
    ELSE LET pick(m) == IF FLt(m, s[i]) THEN s[i] ELSE m
         IN  pick(cummax_at(s, i - 1))

cummax(s) == [i \in 1..Len(s) |-> cummax_at(s, i)]

\* Series.min(): NaN entries are skipped, NaN when nothing is left
series_min(s) ==
    LET kept == { i \in 1..Len(s) : ~IsNaN(s[i]) }
    IN  IF kept = {} THEN NaN
        ELSE s[CHOOSE i \in kept : \A j \in kept : FLe(s[i], s[j])]

\* equity_df['drawdown'] = (total_value - cummax) / cummax
drawdown(total_value) ==
    LET dd(peak) == [i \in 1..Len(total_value) |->
                        FDiv(FSub(total_value[i], peak[i]), peak[i])]
    IN  dd(cummax(total_value))

max_drawdown(total_value) == series_min(drawdown(total_value))

\* _calculate_metrics: the entries computed without powers and roots
calculate_metrics(equity_df) ==
    IF Len(equity_df.total_value) = 0
    THEN [error |-> "No equity data"]
    ELSE [ final_value  |-> equity_df.total_value[Len(equity_df.total_value)],
           max_drawdown |-> max_drawdown(equity_df.total_value),
           days_traded  |-> Len(equity_df.total_value) ]

InitMetrics ==
    /\ variant = "None" /\ frame = "None" /\ out = "None"
    /\ earlier = << >>
    /\ pc = "idle"
    /\ portfolio = "None" /\ ret = "none" /\ call = "None" /\ ncalls = 0
    /\ backtester = "None" /\ strategy = "None" /\ data = << >> /\ run_symbol = ""
    /\ positions_df = << >> /\ idx = 0 /\ results = "None"

\* equity_df = self.portfolio.get_equity_curve()
GetEquityCurve ==
    /\ pc = "idle"
    /\ \E n_ \in 0..MaxCurveLen :
          \E v \in [1..n_ -> EquityValues] :
              frame' = [total_value |-> [i \in 1..n_ |-> F(v[i])]]
    /\ pc' = "equity"
    /\ UNCHANGED <<portfolio, ret, call, ncalls, backtester, strategy, data, run_symbol,
                   positions_df, idx, results, variant, out, earlier>>

\* the rest of _calculate_metrics: self.metrics
CalculateMetrics ==
    /\ pc = "equity"
    /\ out' = calculate_metrics(frame)
    /\ pc' = "measured"
    /\ UNCHANGED <<portfolio, ret, call, ncalls, backtester, strategy, data, run_symbol,
                   positions_df, idx, results, variant, frame, earlier>>

NextMetrics == GetEquityCurve \/ CalculateMetrics

SpecMetrics == InitMetrics /\ [][NextMetrics]_vars

(***************************************************************************)
(* Helpers for stating the ledger properties                               *)
(***************************************************************************)
RECURSIVE SumTo(_, _)
SumTo(f, n) == IF n = 0 THEN 0 ELSE f[n] + SumTo(f, n - 1)

\* signed cash effect of one trades_history record
CashEffect(rec) ==
    IF rec.action = "BUY" THEN 0 - rec.total_cost ELSE rec.total_proceeds

\* signed share effect of one trades_history record on a symbol
ShareEffect(rec, symbol) ==
    IF rec.symbol # symbol THEN 0
    ELSE IF rec.action = "BUY" THEN rec.shares ELSE 0 - rec.shares

\* cash implied by the first n records of a history
CashFromHistory(pf, n) ==
    pf.initial_capital
      + SumTo([i \in 1..n |-> CashEffect(pf.trades_history[i])], n)

SharesFromHistory(pf, symbol) ==
    SumTo([i \in 1..Len(pf.trades_history) |->
              ShareEffect(pf.trades_history[i], symbol)],
          Len(pf.trades_history))

\* mark-to-market value of the holdings, one term per symbol of the universe
HeldValue(pf, prices) ==
    LET term == [s \in Symbols |->
                    (IF s \in DOMAIN pf.positions THEN pf.positions[s] ELSE 0)
                  * (IF s \in DOMAIN prices THEN prices[s] ELSE 0)]
    IN  term["AAPL"] + term["MSFT"]

IsPrefix(s, t) == Len(s) <= Len(t) /\ SubSeq(t, 1, Len(s)) = s

(***************************************************************************)
(* C1: cash >= 0 after every buy / sell call, accepted or declined.        *)
(* Portfolio.sell never looks at cash: a commission larger than            *)
(* cash + shares*price drives the balance below zero.                      *)
(***************************************************************************)
C1_CashNeverNegative == portfolio.cash >= 0

(***************************************************************************)
(* C2: every snapshot record_equity appends has                            *)
(* total_value = cash + positions_value, with cash the ledger's cash at    *)
(* the call and positions_value the sum over held symbols of shares times  *)
(* the supplied price (a symbol without a supplied price counts 0).        *)
(***************************************************************************)
C2_EquityIdentity ==
    /\ \A i \in 1..Len(portfolio.equity_curve) :
          LET e == portfolio.equity_curve[i]
          IN  e.total_value = e.cash + e.positions_value
    /\ call.op = "record_equity" =>
          LET e == portfolio.equity_curve[Len(portfolio.equity_curve)]
          IN  /\ e.cash = call.before.cash
              /\ e.positions_value = HeldValue(call.before, call.prices)
              /\ e.total_value = call.before.cash + HeldValue(call.before, call.prices)
              /\ e.date = call.date

C2_Witness ==
    /\ call.op = "record_equity"
    /\ Len(portfolio.trades_history) >= 2
    /\ portfolio.equity_curve[Len(portfolio.equity_curve)].positions_value > 0
    /\ portfolio.cash > 0

(***************************************************************************)
(* C4: a declined order changes nothing.  buy returns False exactly when   *)
(* shares*price + commission > cash, sell returns False exactly when       *)
(* shares > the position held, and then cash, positions, trades_history    *)
(* and equity_curve are as before the call.                                *)
(***************************************************************************)
C4_DeclinedChangesNothing ==
    /\ call.op = "buy" =>
          /\ ret \in BOOLEAN
          /\ (ret = FALSE) <=>
                (call.shares * call.price + call.commission > call.before.cash)
    /\ call.op = "sell" =>
          /\ ret \in BOOLEAN
          /\ (ret = FALSE) <=>
                (call.shares >
                    (IF call.symbol \in DOMAIN call.before.positions
                     THEN call.before.positions[call.symbol] ELSE 0))
    /\ (call.op \in {"buy", "sell"} /\ ret = FALSE) =>
          /\ portfolio.cash = call.before.cash
          /\ portfolio.positions = call.before.positions
          /\ portfolio.trades_history = call.before.trades_history
          /\ portfolio.equity_curve = call.before.equity_curve

\* the spec's scenario shape: a buy whose cost exceeds cash, on a ledger
\* that already holds a position and a snapshot
C4_Witness ==
    /\ call.op = "buy"
    /\ ret = FALSE
    /\ call.shares * call.price + call.commission > portfolio.cash
    /\ portfolio.trades_history # << >>
    /\ portfolio.equity_curve # << >>

(***************************************************************************)
(* C6: the ledger reconciles with its trade history: cash = initial        *)
(* capital - BUY total_cost + SELL total_proceeds, shares held per symbol  *)
(* = BUY shares - SELL shares, each record's cash_after is the cash right  *)
(* after that order, and trades_history grows by exactly one record per    *)
(* accepted order and by none per declined order (or snapshot).            *)
(***************************************************************************)
C6_LedgerReconciles ==
    LET th == portfolio.trades_history
    IN  /\ portfolio.cash = CashFromHistory(portfolio, Len(th))
        /\ \A s \in Symbols :
              (IF s \in DOMAIN portfolio.positions THEN portfolio.positions[s] ELSE 0)
                 = SharesFromHistory(portfolio, s)
        /\ \A i \in 1..Len(th) : th[i].cash_after = CashFromHistory(portfolio, i)
        /\ IsPrefix(call.before.trades_history, th)
        /\ (call.op \in {"buy", "sell"} /\ ret = TRUE) =>
              /\ Len(th) = Len(call.before.trades_history) + 1
              /\ th[Len(th)].cash_after = portfolio.cash
              /\ th[Len(th)].action = (IF call.op = "buy" THEN "BUY" ELSE "SELL")
              /\ th[Len(th)].symbol = call.symbol
              /\ th[Len(th)].shares = call.shares
        /\ ~(call.op \in {"buy", "sell"} /\ ret = TRUE) =>
              th = call.before.trades_history

C6_Witness ==
    LET th == portfolio.trades_history
    IN  /\ Len(th) = 2
        /\ th[1].action = "BUY" /\ th[1].commission > 0
        /\ th[2].action = "SELL" /\ th[2].commission > 0
        /\ call.op = "buy" /\ ret = FALSE

(***************************************************************************)
(* Helpers for stating the run properties (SpecRun, after a RunBar step)   *)
(***************************************************************************)
BarDone == idx > 0                       \* call, ret describe bar number idx
Row == positions_df[idx]                 \* the bar just processed
HeldBefore ==
    IF run_symbol \in DOMAIN call.before.positions
    THEN call.before.positions[run_symbol] ELSE 0
HeldNow ==
    IF run_symbol \in DOMAIN portfolio.positions
    THEN portfolio.positions[run_symbol] ELSE 0
BuyPrice(close) == (close \div SlippageDen) * (SlippageDen + backtester.slippage_rate)
SellPrice(close) == (close \div SlippageDen) * (SlippageDen - backtester.slippage_rate)
CommissionOn(shares, price) ==
    ((shares * price) \div CommissionDen) * backtester.commission_rate
PositionBefore(i) == IF i = 1 THEN 0 ELSE positions_df[i - 1].position

(***************************************************************************)
(* C3: for every signal sequence over {-1,0,+1} the position series has    *)
(* values in {0,1} only, starts from Flat, goes Flat->Long exactly on a    *)
(* Buy while Flat and Long->Flat exactly on a Sell while Long; a Sell      *)
(* while Flat, a Buy while Long and a Hold leave the position unchanged.   *)
(***************************************************************************)
C3_PositionStateMachine ==
    pc # "idle" =>
        /\ Len(positions_df) = Len(data)
        /\ \A i \in 1..Len(positions_df) :
              LET prev == PositionBefore(i)
                  pos  == positions_df[i].position
                  sig  == positions_df[i].signal
              IN  /\ sig = strategy.rule[i]
                  /\ pos \in {0, 1}
                  /\ (prev = 0 /\ pos = 1) <=> (prev = 0 /\ sig = 1)
                  /\ (prev = 1 /\ pos = 0) <=> (prev = 1 /\ sig = -1)

C3_Witness ==
    /\ pc = "loop"
    /\ Len(positions_df) = 3
    /\ strategy.rule = <<-1, 1, 1>>
    /\ [i \in 1..3 |-> positions_df[i].position] = <<0, 1, 1>>

(***************************************************************************)
(* C5: with commission 0 and slippage 0, a Buy of n shares at price p      *)
(* (the bar where the position opens) followed at the next bar by a Sell   *)
(* of the same n shares at the same price p leaves cash at its value       *)
(* before the Buy (initial_capital for a first order), leaves no position  *)
(* in the symbol, and the strategy records exactly one closed trade for    *)
(* it, with return 0.                                                      *)
(***************************************************************************)
RoundTrip ==
    /\ idx >= 2
    /\ backtester.commission_rate = 0
    /\ backtester.slippage_rate = 0
    /\ call.op = "sell" /\ ret = TRUE
    /\ Len(portfolio.trades_history) >= 2
    /\ LET th == portfolio.trades_history
           b  == th[Len(th) - 1]
           s  == th[Len(th)]
       IN  /\ b.action = "BUY" /\ s.action = "SELL"
           /\ b.date = positions_df[idx - 1].date
           /\ s.date = positions_df[idx].date
           /\ b.shares = s.shares
           /\ b.price = s.price
    /\ PositionBefore(idx - 1) = 0
    /\ positions_df[idx - 1].position = 1

CashBeforeBar(i) ==
    IF i = 1 THEN portfolio.initial_capital ELSE portfolio.equity_curve[i - 1].cash

TradesEnteredAt(i) ==
    { k \in 1..Len(strategy.trades) :
        strategy.trades[k].entry_date = positions_df[i].date }

BuyCase == BarDone /\ Row.signal = 1 /\ HeldBefore <= 0

BuySubmitted(size) ==
    IF size > 0
    THEN /\ call.op = "buy"
         /\ ret \in BOOLEAN
         /\ call.symbol = run_symbol
         /\ call.shares = size
         /\ call.price = BuyPrice(Row.close)
         /\ call.commission = CommissionOn(size, BuyPrice(Row.close))
         /\ call.date = Row.date
    ELSE call.op = "none"

C7_BuySizedByClose ==
    BuyCase => BuySubmitted((call.before.cash * 19) \div (20 * Row.close))

\* C7 as stated: the size is floor(cash * 0.95 / execution_price)
C7_BuySizedByExecutionPrice ==
    BuyCase => BuySubmitted((call.before.cash * 19) \div (20 * BuyPrice(Row.close)))

C7_Witness ==
    /\ BuyCase
    /\ call.op = "buy" /\ ret = TRUE
    /\ backtester.slippage_rate = DefaultSlippage
    /\ backtester.commission_rate = DefaultCommission
    /\ call.shares = 19
    /\ call.shares # (call.before.cash * 19) \div (20 * BuyPrice(Row.close))

(***************************************************************************)
(* C8: with the default rates (commission 0.001, slippage 0.0005) and the  *)
(* 0.95 position fraction every buy order Backtester.run submits is        *)
(* accepted: its total cost shares*execution_price + commission never      *)
(* exceeds the available cash.                                             *)
(***************************************************************************)
DefaultRates ==
    /\ backtester.commission_rate = DefaultCommission
    /\ backtester.slippage_rate = DefaultSlippage

C8_DefaultBuyAccepted ==
    (BarDone /\ DefaultRates /\ call.op = "buy") =>
        /\ ret = TRUE
        /\ call.shares * call.price + call.commission <= call.before.cash
        /\ portfolio.cash >= 0
        /\ HeldNow = call.shares

\* the tightest case: 0.95 * cash / close is a whole number of shares
C8_Witness ==
    /\ BarDone /\ DefaultRates /\ call.op = "buy" /\ ret = TRUE
    /\ call.before.cash = 20 * MoneyScale
    /\ Row.close = 1 * MoneyScale
    /\ call.shares = 19
    /\ call.commission > 0

(***************************************************************************)
(* C9: on a Sell signal while a position in the symbol exists, run sells   *)
(* the entire held quantity at execution_price = close*(1-slippage_rate)   *)
(* with commission shares*execution_price*commission_rate; the sell is     *)
(* never declined and at the end of the bar zero shares are held.          *)
(***************************************************************************)
SellCase == BarDone /\ Row.signal = -1 /\ HeldBefore > 0

C9_SellEntirePosition ==
    SellCase =>
        /\ call.op = "sell"
        /\ ret = TRUE
        /\ call.symbol = run_symbol
        /\ call.shares = HeldBefore
        /\ call.price = SellPrice(Row.close)
        /\ call.commission = CommissionOn(HeldBefore, SellPrice(Row.close))
        /\ call.date = Row.date
        /\ HeldNow = 0
        /\ portfolio.cash = call.before.cash + call.shares * call.price - call.commission

C9_Witness ==
    /\ SellCase
    /\ call.op = "sell" /\ ret = TRUE
    /\ backtester.slippage_rate > 0 /\ backtester.commission_rate > 0
    /\ call.shares > 1
    /\ HeldNow = 0

(***************************************************************************)
(* C10: run appends exactly one equity snapshot per bar, in bar order and  *)
(* after any order of that bar has been applied, whether or not an order   *)
(* executed; after a run over n bars the curve has n entries whose dates   *)
(* are the bars' dates in the same order.                                  *)
(***************************************************************************)
C10_OneSnapshotPerBar ==
    pc # "idle" =>
        LET ec == portfolio.equity_curve
        IN  /\ Len(ec) = idx
            /\ \A i \in 1..Len(ec) : ec[i].date = data[i].date
            /\ BarDone =>
                  /\ ec[idx].cash = portfolio.cash
                  /\ ec[idx].total_value = portfolio.cash + HeldNow * Row.close
                  /\ IsPrefix(call.before.equity_curve, ec)
                  /\ Len(ec) = Len(call.before.equity_curve) + 1
            /\ pc = "done" => Len(ec) = Len(data)

C10_Witness ==
    /\ pc = "done"
    /\ Len(data) = 3
    /\ data[1].date > data[2].date
    /\ Len(portfolio.trades_history) = 1
    /\ portfolio.trades_history[1].date = data[2].date
    /\ Len(portfolio.equity_curve) = 3

(***************************************************************************)
(* C11: when the Portfolio declines an order that run submitted at a bar,  *)
(* the run goes on (no exception): cash, positions and trades_history are  *)
(* as they were before that bar, the bar's equity snapshot is recorded     *)
(* all the same, and the loop continues with the next bar, or with the     *)
(* results object after the last bar.                                      *)
(***************************************************************************)
DeclinedCase == BarDone /\ call.op \in {"buy", "sell"} /\ ret = FALSE

C11_DeclineSkipped ==
    DeclinedCase =>
        /\ pc \in {"loop", "done"}
        /\ portfolio.cash = call.before.cash
        /\ portfolio.positions = call.before.positions
        /\ portfolio.trades_history = call.before.trades_history
        /\ Len(portfolio.equity_curve) = idx
        /\ portfolio.equity_curve =
              Append(call.before.equity_curve,
                     [ date            |-> Row.date,
                       cash            |-> call.before.cash,
                       positions_value |-> HeldBefore * Row.close,
                       total_value     |-> call.before.cash + HeldBefore * Row.close ])
        /\ (pc = "loop" /\ idx < Len(positions_df)) => ENABLED RunBar
        /\ (pc = "loop" /\ idx = Len(positions_df)) => ENABLED RunFinish
        /\ pc = "done" => Len(results.portfolio.equity_curve) = Len(data)

\* buys declined at the first and at the last of three bars, the run completed
C11_Witness ==
    /\ DeclinedCase
    /\ pc = "done"
    /\ Len(data) = 3
    /\ strategy.rule[1] = 1
    /\ Len(portfolio.equity_curve) = 3
    /\ portfolio.trades_history = << >>
    /\ portfolio.cash = backtester.initial_capital

(***************************************************************************)
(* C12: run obtains the position series through strategy.run(data), which  *)
(* composes generate_signals, calculate_positions and identify_trades;     *)
(* hence after run returns, strategy.positions is the series the loop      *)
(* replayed and strategy.trades is exactly the list of the closed          *)
(* round-trips of that series.                                             *)
(***************************************************************************)
C12_TradesOfRun ==
    pc = "done" =>
        /\ strategy.positions = positions_df
        /\ strategy.trades = identify_trades(positions_df)

(***************************************************************************)
(* C13: run on malformed input, here an empty bar series, raises a         *)
(* configuration error before any simulation step: no order is submitted,  *)
(* no equity snapshot is recorded and no results object is returned.       *)
(***************************************************************************)
C13_EmptySeriesRaises ==
    Len(data) = 0 =>
        /\ pc # "done"
        /\ pc = "loop" => /\ portfolio.trades_history = << >>
                          /\ portfolio.equity_curve = << >>

(***************************************************************************)
(* Helpers for stating the signal properties (SpecSignals, after           *)
(* generate_signals returned)                                              *)
(***************************************************************************)
Signalled == pc = "signalled" /\ out.raised = "none"
Bars == 1..nrows(frame)
Sig(i) == out.df["signal"][i]
Buy_ == F(1)
Sell_ == F(-1)
Hold_ == F(0)
CrossingClasses ==
    { "MovingAverageCrossover", "RSIStrategy", "RSIEnhancedStrategy",
      "BollingerBandsStrategy", "BollingerBandsBreakoutStrategy" }
\* the value of a column of the returned frame at bar i - back
ValueAt(col, i, back) == IF i - back < 1 THEN NaN ELSE out.df[col][i - back]
\* the indicator values, as <<column, bars back>>, that the Buy condition
\* and the Sell condition of a crossing class read
BuyReads(self) ==
    CASE self.cls = "MovingAverageCrossover" ->
            { sma_col(self.short_window), sma_col(self.long_window) } \X {0, 1}
      [] self.cls = "RSIStrategy" -> { "rsi" } \X {0, 1}
      [] self.cls = "RSIEnhancedStrategy" ->
            ({ "rsi" } \X {0, 1}) \cup { <<sma_col(self.trend_ma), 0>> }
      [] self.cls = "BollingerBandsStrategy" -> { "bb_lower" } \X {0, 1}
      [] self.cls = "BollingerBandsBreakoutStrategy" ->
            ({ "bb_upper" } \X {0, 1}) \cup { <<"bb_lower", 1>> }
SellReads(self) ==
    CASE self.cls = "MovingAverageCrossover" ->
            { sma_col(self.short_window), sma_col(self.long_window) } \X {0, 1}
      [] self.cls \in {"RSIStrategy", "RSIEnhancedStrategy"} -> { "rsi" } \X {0, 1}
      [] self.cls = "BollingerBandsStrategy" -> { "bb_upper" } \X {0, 1}
      [] self.cls = "BollingerBandsBreakoutStrategy" -> { "bb_middle" } \X {0, 1}
Undefined(reads, i) == \E r \in reads : IsNaN(ValueAt(r[1], i, r[2]))

\* the indicator columns each class reads from its input frame
RequiredIndicators(self) ==
    CASE self.cls = "MovingAverageCrossover" ->
            { sma_col(self.short_window), sma_col(self.long_window) }
      [] self.cls = "RSIStrategy" -> { "rsi" }
      [] self.cls = "RSIEnhancedStrategy" -> { "rsi", sma_col(self.trend_ma) }
      [] self.cls = "BollingerBandsStrategy" -> { "bb_upper", "bb_lower" }
      [] self.cls = "BollingerBandsBreakoutStrategy" -> { "bb_upper", "bb_middle", "bb_lower" }
      [] self.cls \in {"CombinedStrategy", "WeightedCombinedStrategy"} ->
            { required_indicators[i] : i \in 1..Len(required_indicators) }

(***************************************************************************)
(* C14: for every strategy class, generate_signals on a frame that lacks   *)
(* an indicator column the class requires raises a descriptive             *)
(* configuration error (a ValueError naming the missing columns); it never *)
(* returns a signal series.                                                *)
(***************************************************************************)
C14_MissingIndicatorRaises ==
    (pc = "signalled" /\ ~(RequiredIndicators(variant) \subseteq DOMAIN frame)) =>
        /\ out.raised = "ValueError"
        /\ variant.signals = "None"

\* every period or window is at least 1 and oversold < overbought
ValidParameters(self) ==
    /\ ValidWindows(self)
    /\ self.cls \in {"RSIStrategy", "RSIEnhancedStrategy"} =>
          FLt(self.oversold, self.overbought)
    /\ self.cls = "CombinedStrategy" => FLt(self.rsi_oversold, self.rsi_overbought)

(***************************************************************************)
(* C15: constructing a strategy with an invalid parameter (a period or     *)
(* window that is not positive, or oversold >= overbought) fails at        *)
(* construction: no strategy object with such a parameter ever exists.     *)
(***************************************************************************)
C15_InvalidParameterRejected ==
    pc \in {"constructed", "signalled"} => ValidParameters(variant)

C17_EdgeTriggered ==
    Signalled =>
        \A i \in Bars : (i > 1 /\ Sig(i) # Hold_) => Sig(i - 1) # Sig(i)

\* the short and the long average of the returned frame, and their order
\* as rationals; an undefined value is neither above, below nor equal
ShortAt(i) == out.df["short_ma"][i]
LongAt(i) == out.df["long_ma"][i]
BothDefined(i) == i >= 1 /\ IsNum(ShortAt(i)) /\ IsNum(LongAt(i))
ShortAbove(i) ==
    BothDefined(i) /\ ShortAt(i).n * LongAt(i).d > LongAt(i).n * ShortAt(i).d
ShortBelow(i) ==
    BothDefined(i) /\ ShortAt(i).n * LongAt(i).d < LongAt(i).n * ShortAt(i).d
ShortEqual(i) ==
    BothDefined(i) /\ ShortAt(i).n * LongAt(i).d = LongAt(i).n * ShortAt(i).d

(***************************************************************************)
(* C18: MovingAverageCrossover emits Buy at bar i exactly when             *)
(* short[i] > long[i] and short[i-1] <= long[i-1], Sell exactly when       *)
(* short[i] < long[i] and short[i-1] >= long[i-1], and Hold at every other *)
(* bar; for the short average 1,2,3,4,5 against the long average 3,3,3,3,3 *)
(* the only non-Hold signal is one Buy at index 3 (the fourth bar).        *)
(***************************************************************************)
C18_CrossoverExact ==
    (Signalled /\ variant.cls = "MovingAverageCrossover") =>
        /\ \A i \in Bars :
              LET buy  == ShortAbove(i) /\ (ShortBelow(i - 1) \/ ShortEqual(i - 1))
                  sell == ShortBelow(i) /\ (ShortAbove(i - 1) \/ ShortEqual(i - 1))
              IN  /\ Sig(i) = Buy_ <=> buy
                  /\ Sig(i) = Sell_ <=> sell
                  /\ Sig(i) = Hold_ <=> ~buy /\ ~sell
        /\ out.df["short_ma"] = out.df[sma_col(variant.short_window)]
        /\ out.df["long_ma"] = out.df[sma_col(variant.long_window)]
        /\ frame = CrossoverScenario(variant) =>
              out.df["signal"] = <<Hold_, Hold_, Hold_, Buy_, Hold_>>

C18_Witness ==
    /\ Signalled /\ variant.cls = "MovingAverageCrossover"
    /\ frame = CrossoverScenario(variant)
    /\ Sig(4) = Buy_ /\ ShortAbove(4) /\ ShortEqual(3)
    /\ \A i \in Bars \ {4} : Sig(i) = Hold_

\* a frame on which the short average falls through the long one: Sell
C18_WitnessSell ==
    /\ Signalled /\ variant.cls = "MovingAverageCrossover"
    /\ \E i \in Bars : Sig(i) = Sell_ /\ ShortBelow(i) /\ ShortAbove(i - 1)

\* the RSI window ending at bar i is complete and holds no down move, so the
\* average loss over it is 0
ZeroLoss(period, i) ==
    /\ i - period + 1 >= 2
    /\ \A j \in (i - period + 1)..i : ~FLt(frame["close"][j], frame["close"][j - 1])

(***************************************************************************)
(* C19: when the average loss over the RSI window is 0 (no down move in    *)
(* the window), the RSI value at that bar is undefined, also when the      *)
(* average gain over the same window is positive: it is not 100 and not    *)
(* infinity.                                                               *)
(***************************************************************************)
C19_RSIUndefinedOnZeroLoss ==
    (Signalled /\ variant.cls = "RSIStrategy" /\ "rsi" \notin DOMAIN frame) =>
        \A i \in Bars :
            ZeroLoss(variant.rsi_period, i) => IsNaN(out.df["rsi"][i])

\* the MACD line crosses the signal line of the input frame at bar i
MacdCrossesAbove(i) ==
    /\ i > 1
    /\ FGt(frame["macd"][i], frame["macd_signal"][i])
    /\ FLe(frame["macd"][i - 1], frame["macd_signal"][i - 1])
MacdCrossesBelow(i) ==
    /\ i > 1
    /\ FLt(frame["macd"][i], frame["macd_signal"][i])
    /\ FGe(frame["macd"][i - 1], frame["macd_signal"][i - 1])

(***************************************************************************)
(* C20: in CombinedStrategy the MACD sub-signal at bar i is +1 exactly     *)
(* when the MACD line crosses above the MACD signal line supplied in the   *)
(* input, -1 exactly on the reverse crossing, and 0 otherwise.             *)
(***************************************************************************)
C20_MacdSubSignalAgainstInput ==
    (Signalled /\ variant.cls = "CombinedStrategy") =>
        \A i \in Bars :
            out.df["macd_signal"][i] =
                IF MacdCrossesAbove(i) THEN F(1)
                ELSE IF MacdCrossesBelow(i) THEN F(-1) ELSE F(0)

\* the numbers of +1 and of -1 sub-signals of CombinedStrategy at bar i
SubSignals == { "rsi_signal", "macd_signal", "bb_signal" }
BuyCount(i) == Cardinality({ c \in SubSignals : out.df[c][i] = F(1) })
SellCount(i) == Cardinality({ c \in SubSignals : out.df[c][i] = F(-1) })
\* the weighted sum of the scores of WeightedCombinedStrategy at bar i
WeightedSum(i) ==
    QAdd(QAdd(QMul(out.df["rsi_score"][i], variant.rsi_weight),
              QMul(out.df["macd_score"][i], variant.macd_weight)),
         QMul(out.df["bb_score"][i], variant.bb_weight))
AtLeast(i) == ~QLt(WeightedSum(i), variant.threshold)
AtMostMinus(i) == ~QLt(QSub(F(0), variant.threshold), WeightedSum(i))

(***************************************************************************)
(* C21, as stated: for every min_signals and every bar, CombinedStrategy   *)
(* emits Buy at exactly the bars where the count of +1 sub-signals is      *)
(* >= min_signals and Sell at exactly the bars where the count of -1       *)
(* sub-signals is >= min_signals; WeightedCombinedStrategy emits Buy       *)
(* exactly where the weighted sum is >= threshold and Sell exactly where   *)
(* it is <= -threshold.                                                    *)
(***************************************************************************)
C21_ThresholdsExact ==
    Signalled =>
        /\ variant.cls = "CombinedStrategy" =>
              \A i \in Bars :
                  /\ Sig(i) = Buy_ <=> BuyCount(i) >= variant.min_signals
                  /\ Sig(i) = Sell_ <=> SellCount(i) >= variant.min_signals
        /\ variant.cls = "WeightedCombinedStrategy" =>
              \A i \in Bars :
                  /\ Sig(i) = Buy_ <=> AtLeast(i)
                  /\ Sig(i) = Sell_ <=> AtMostMinus(i)

(***************************************************************************)
(* C21, amended: Sell is assigned last and takes precedence.  For every    *)
(* min_signals and every bar CombinedStrategy emits Sell at exactly the    *)
(* bars where the count of -1 sub-signals is >= min_signals, and Buy at    *)
(* exactly the bars where the count of +1 sub-signals is >= min_signals    *)
(* and the count of -1 sub-signals is below it; WeightedCombinedStrategy   *)
(* emits Sell exactly where the weighted sum is <= -threshold and Buy      *)
(* exactly where it is >= threshold and not <= -threshold.                 *)
(***************************************************************************)
C21_ThresholdsSellFirst ==
    Signalled =>
        /\ variant.cls = "CombinedStrategy" =>
              \A i \in Bars :
                  /\ Sig(i) = Sell_ <=> SellCount(i) >= variant.min_signals
                  /\ Sig(i) = Buy_ <=> /\ BuyCount(i) >= variant.min_signals
                                       /\ SellCount(i) < variant.min_signals
        /\ variant.cls = "WeightedCombinedStrategy" =>
              \A i \in Bars :
                  /\ Sig(i) = Sell_ <=> AtMostMinus(i)
                  /\ Sig(i) = Buy_ <=> AtLeast(i) /\ ~AtMostMinus(i)

\* min_signals = 2: two +1 sub-signals give Buy, two -1 sub-signals give Sell
C21_Witness ==
    /\ Signalled /\ variant.cls = "CombinedStrategy" /\ variant.min_signals = 2
    /\ nrows(frame) = 2
    /\ BuyCount(1) = 2 /\ Sig(1) = Buy_
    /\ SellCount(2) = 2 /\ Sig(2) = Sell_

(***************************************************************************)
(* C22: max_drawdown                                                       *)
(***************************************************************************)
Measured == pc = "measured" /\ Len(frame.total_value) > 0
Curve == frame.total_value
Points == 1..Len(Curve)
\* max(value[0..i]) and the drawdown at point i, as exact rationals
PeakAt(i) == CHOOSE m \in { Curve[j].n : j \in 1..i } : \A j \in 1..i : Curve[j].n <= m
PeakNonZero == \A i \in Points : PeakAt(i) # 0
DrawdownAt(i) == Num(Curve[i].n - PeakAt(i), PeakAt(i))
RatEq(a, b) == a.n * b.d = b.n * a.d
RatLe(a, b) == IF a.d * b.d > 0 THEN a.n * b.d <= b.n * a.d ELSE a.n * b.d >= b.n * a.d
IsMinimumDrawdown(x) ==
    /\ x.k = "num"
    /\ \E i \in Points : RatEq(x, DrawdownAt(i))
    /\ \A i \in Points : RatLe(x, DrawdownAt(i))
    /\ RatLe(x, Num(0, 1))
ScenarioCurve == [i \in 1..4 |-> F(<<100, 120, 90, 110>>[i])]

\* C22 as stated: for every non-empty equity curve max_drawdown is the
\* minimum over all points i of (value[i] - max(value[0..i])) / max(value[0..i])
\* and is at most 0; for [100,120,90,110] it is -1/4, reached at index 2.
C22_MaxDrawdownEveryCurve ==
    Measured =>
        /\ IsMinimumDrawdown(out.max_drawdown)
        /\ Curve = ScenarioCurve =>
              /\ RatEq(out.max_drawdown, Num(-1, 4))
              /\ \A i \in Points : RatEq(DrawdownAt(i), Num(-1, 4)) <=> i = 3

\* C22 amended: the same, for every non-empty equity curve whose running
\* maximum is nonzero at every point.
C22_MaxDrawdownNonZeroPeak ==
    (Measured /\ PeakNonZero) =>
        /\ IsMinimumDrawdown(out.max_drawdown)
        /\ Curve = ScenarioCurve =>
              /\ RatEq(out.max_drawdown, Num(-1, 4))
              /\ \A i \in Points : RatEq(DrawdownAt(i), Num(-1, 4)) <=> i = 3

C22_Witness ==
    /\ Measured /\ Curve = ScenarioCurve
    /\ out.max_drawdown.k = "num" /\ RatEq(out.max_drawdown, Num(-1, 4))

(***************************************************************************)
(* C23: date order                                                         *)
(***************************************************************************)
NonDecreasingDates(records) ==
    \A i \in 1..Len(records) : \A j \in i..Len(records) : records[i].date <= records[j].date

\* C23: run validates or enforces ascending date order, so the dates of the
\* equity curve and of trades_history are non-decreasing at every point of
\* every run.
C23_DatesNonDecreasing ==
    pc \in {"loop", "done"} =>
        /\ NonDecreasingDates(portfolio.equity_curve)
        /\ NonDecreasingDates(portfolio.trades_history)

(***************************************************************************)
(* C24: every run owns a private Portfolio                                 *)
(***************************************************************************)
RunStarts == pc # "loop" /\ pc' = "loop"
FreshPortfolio(pf) ==
    /\ pf.cash = backtester.initial_capital
    /\ pf.positions = EmptyDict
    /\ Len(pf.trades_history) = 0
    /\ Len(pf.equity_curve) = 0

\* C24: every run starts with cash equal to initial_capital and with empty
\* positions, trades_history and equity_curve, and the portfolio that the
\* results of an earlier run reference is the one that run finished with:
\* no step of a later run on the same Backtester changes it.
C24_PrivatePortfolio ==
    [][ /\ RunStarts => FreshPortfolio(portfolio')
        /\ (RunStarts /\ pc = "done") =>
              /\ Len(earlier') = 1
              /\ earlier'[1].results = results
        /\ Len(earlier) = 1 =>
              /\ Len(earlier') = 1
              /\ earlier'[1].results.portfolio = earlier[1].results.portfolio ]_vars

\* a second run has traded and finished while the first run's results are held
C24_Witness ==
    /\ pc = "done"
    /\ Len(earlier) = 1
    /\ Len(earlier[1].results.portfolio.trades_history) > 0
    /\ Len(results.portfolio.trades_history) > 0
    /\ earlier[1].results.portfolio = results.portfolio

(***************************************************************************)
(* C25: identify_trades                                                    *)
(***************************************************************************)
Identified == strategy.runs > 0
NBars == Len(strategy.positions)
Pos(i) == strategy.positions[i].position
\* the bars where the position series goes Long -> Flat
LongToFlat == { i \in 2..NBars : Pos(i - 1) = 1 /\ Pos(i) = 0 }
KthExit(k) == CHOOSE x \in LongToFlat : Cardinality({ y \in LongToFlat : y < x }) = k - 1
\* the first bar of the maximal Long run that ends right before bar x
EntryOf(x) ==
    CHOOSE e \in 1..(x - 1) :
        /\ \A j \in e..(x - 1) : Pos(j) = 1
        /\ e = 1 \/ Pos(e - 1) = 0

\* C25: identify_trades returns one trade per Long -> Flat transition of the
\* position series, in bar order and non-overlapping; the entry is the first
\* bar of a maximal Long run, the exit the first Flat bar after it, the
\* holding period is exit index - entry index >= 1, the return is
\* (exit close - entry close) / entry close; a Long run that lasts to the
\* final bar yields no trade.
C25_TradesFromTransitions ==
    Identified =>
        /\ Len(strategy.trades) = Cardinality(LongToFlat)
        /\ \A k \in 1..Len(strategy.trades) :
              \E x \in { KthExit(k) } : \E e \in { EntryOf(x) } :
                  /\ strategy.trades[k].entry_date = strategy.positions[e].date
                  /\ strategy.trades[k].entry_price = strategy.positions[e].close
                  /\ strategy.trades[k].exit_date = strategy.positions[x].date
                  /\ strategy.trades[k].exit_price = strategy.positions[x].close
                  /\ strategy.trades[k].holding_period = x - e
                  /\ strategy.trades[k].holding_period >= 1
                  /\ strategy.trades[k].return.num
                        = strategy.positions[x].close - strategy.positions[e].close
                  /\ strategy.trades[k].return.den = strategy.positions[e].close
                  /\ k > 1 => KthExit(k - 1) < e
        /\ (NBars > 0 /\ Pos(NBars) = 1) =>
              \A k \in 1..Len(strategy.trades) :
                  \A j \in 1..NBars :
                      strategy.positions[j].date = strategy.trades[k].exit_date => j < NBars

\* Long, Long, Flat, Long, Flat: two trades, of two bars and of one bar
C25_Witness ==
    /\ Identified
    /\ NBars = 5
    /\ Len(strategy.trades) = 2
    /\ strategy.trades[1].holding_period = 2
    /\ strategy.trades[2].holding_period = 1
    /\ strategy.trades[2].entry_date = 4

\* Flat, Long, Flat, Long, Long: the run open at the last bar yields no trade
C25_WitnessOpenRun ==
    /\ Identified
    /\ NBars = 5
    /\ Pos(1) = 0 /\ Pos(2) = 1 /\ Pos(3) = 0 /\ Pos(4) = 1 /\ Pos(5) = 1
    /\ Len(strategy.trades) = 1

(***************************************************************************)
(* C26: executed orders against the transitions of the position series     *)
(***************************************************************************)
InRun == pc \in {"loop", "done"}
BarsDone == 1..idx
PositionAt(i) == positions_df[i].position
FlatToLong(i) == PositionBefore(i) = 0 /\ PositionAt(i) = 1
LongToFlat_(i) == PositionBefore(i) = 1 /\ PositionAt(i) = 0
\* an order of the given action recorded with the date of bar i
Executed(action, i) ==
    \E k \in 1..Len(portfolio.trades_history) :
        /\ portfolio.trades_history[k].action = action
        /\ portfolio.trades_history[k].date = positions_df[i].date
\* the Buy that the cash at the start of bar i calls for has a positive
\* size and is affordable
BuyFills(i) ==
    LET fills(cash, close) ==
            LET size(shares, price) ==
                    /\ shares > 0
                    /\ ~InsufficientFunds(shares * price
                            + calculate_commission(backtester, shares, price), cash)
            IN  size(calculate_position_size(cash, close),
                     apply_slippage(backtester, close, "BUY"))
    IN  fills(CashBeforeBar(i), positions_df[i].close)

\* C26 as stated: for any prices, capital and rates, a BUY is executed at
\* bar i if and only if the position series goes Flat -> Long at bar i, and
\* a SELL is executed at bar i if and only if it goes Long -> Flat at bar i.
C26_OrdersAreTransitions ==
    InRun =>
        \A i \in BarsDone :
            /\ Executed("BUY", i) <=> FlatToLong(i)
            /\ Executed("SELL", i) <=> LongToFlat_(i)

\* C26 amended: the same, at every bar up to which each Flat -> Long bar's
\* Buy had a positive size and was affordable; and at every bar whatsoever a
\* SELL is executed only where the series goes Long -> Flat.
C26_OrdersAreTransitionsWhenFilled ==
    InRun =>
        \A i \in BarsDone :
            /\ (\A j \in 1..i : FlatToLong(j) => BuyFills(j)) =>
                  /\ Executed("BUY", i) <=> FlatToLong(i)
                  /\ Executed("SELL", i) <=> LongToFlat_(i)
            /\ Executed("SELL", i) => LongToFlat_(i)

\* a Buy filled at a Flat -> Long bar and the Sell at the next, Long -> Flat
C26_Witness ==
    /\ InRun /\ idx >= 2
    /\ FlatToLong(1) /\ BuyFills(1) /\ Executed("BUY", 1)
    /\ LongToFlat_(2) /\ Executed("SELL", 2)

(***************************************************************************)
(* C27: the ledger is never invested while the position series is Flat     *)
(***************************************************************************)
\* C27: at the end of every bar of a run, if the portfolio holds shares of
\* the symbol then the strategy's position at that bar is Long.
C27_InvestedOnlyWhileLong ==
    (InRun /\ idx >= 1 /\ has_position(portfolio, run_symbol)) =>
        /\ PositionAt(idx) = 1
        /\ strategy.positions[idx].position = 1

\* shares bought at the first bar are still held at a later bar that repeats
\* the Buy signal
C27_Witness ==
    /\ InRun /\ idx >= 2
    /\ has_position(portfolio, run_symbol)
    /\ positions_df[idx].signal = 1
    /\ Executed("BUY", 1)

(***************************************************************************)
(* C28: the shape of the trades_history of one run                         *)
(***************************************************************************)
History == portfolio.trades_history
CountOf(action) == Cardinality({ k \in 1..Len(History) : History[k].action = action })

\* C28: in the trades_history of one run orders alternate BUY, SELL, BUY, ...
\* starting with a BUY, at most one order carries the date of any one bar,
\* every SELL sells the share count of the BUY right before it, only the
\* run's symbol appears; so #BUY - #SELL is 0 or 1 and the held share count
\* is 0 or the size of the last BUY.
C28_AlternatingOrders ==
    InRun =>
        /\ \A k \in 1..Len(History) :
              /\ History[k].action = (IF k % 2 = 1 THEN "BUY" ELSE "SELL")
              /\ History[k].symbol = run_symbol
              /\ k % 2 = 0 => History[k].shares = History[k - 1].shares
        /\ \A i \in BarsDone :
              Cardinality({ k \in 1..Len(History) :
                              History[k].date = positions_df[i].date }) <= 1
        /\ Len(History) <= idx
        /\ CountOf("BUY") - CountOf("SELL") \in {0, 1}
        /\ DOMAIN portfolio.positions \subseteq {run_symbol}
        /\ get_position(portfolio, run_symbol)
              = (IF CountOf("BUY") > CountOf("SELL") THEN History[Len(History)].shares ELSE 0)

\* BUY, SELL, BUY over three bars: shares of the second BUY are held
C28_Witness ==
    /\ InRun
    /\ Len(History) = 3
    /\ get_position(portfolio, run_symbol) = History[3].shares
    /\ History[3].shares > 0

(***************************************************************************)
(* C29: an executed order costs its commission and its slippage            *)
(***************************************************************************)
OrderExecuted == BarDone /\ call.op \in {"buy", "sell"} /\ ret = TRUE
Abs(x) == IF x < 0 THEN 0 - x ELSE x
RecordedValue == portfolio.equity_curve[idx].total_value
ValueWithoutOrder == call.before.cash + HeldBefore * Row.close

\* C29: at a bar with close p where an order of n shares is executed at
\* price e with commission c, the recorded total_value is
\* (cash before + shares held before * p) - c - n * |e - p|; with commission
\* rate 0 and slippage rate 0 it is what it would be without the order.
C29_OrderCostsOnly ==
    OrderExecuted =>
        /\ RecordedValue = ValueWithoutOrder - call.commission
                              - call.shares * Abs(call.price - Row.close)
        /\ (backtester.commission_rate = 0 /\ backtester.slippage_rate = 0) =>
              RecordedValue = ValueWithoutOrder

\* a SELL executed with commission and slippage: the costs are positive
C29_Witness ==
    /\ OrderExecuted
    /\ call.op = "sell"
    /\ call.commission > 0
    /\ call.price < Row.close
    /\ RecordedValue < ValueWithoutOrder

(***************************************************************************)
(* C30: no zero-share entry in positions                                   *)
(***************************************************************************)
HeldSymbols == { s \in Symbols : get_position(portfolio, s) > 0 }
NoZeroEntry ==
    /\ \A s \in Symbols : s \in DOMAIN portfolio.positions <=> get_position(portfolio, s) > 0
    /\ Len(portfolio.equity_curve) > 0 =>
          get_summary(portfolio).active_positions = Cardinality(HeldSymbols)
EveryBuyPositive ==
    \A k \in 1..Len(History) : History[k].action = "BUY" => History[k].shares > 0

\* C30 as stated: after any sequence of buy and sell calls with non-negative
\* share counts, positions contains a symbol if and only if its share count
\* is strictly positive, and get_summary's active_positions counts only the
\* symbols held.
C30_NoZeroShareEntry == NoZeroEntry

\* C30 amended: the same, after any sequence of sell calls with non-negative
\* share counts and buy calls of which every executed one had a strictly
\* positive share count.
C30_NoZeroShareEntryPositiveBuys == EveryBuyPositive => NoZeroEntry

\* a holding bought, sold down to zero, and a snapshot taken: nothing counted
C30_Witness ==
    /\ Len(History) = 2
    /\ History[1].action = "BUY" /\ History[1].shares > 0
    /\ History[2].action = "SELL" /\ History[2].shares = History[1].shares
    /\ History[2].symbol = History[1].symbol
    /\ Len(portfolio.equity_curve) > 0
    /\ get_summary(portfolio).active_positions = 0
    /\ portfolio.positions = EmptyDict

====
